---------------------------- MODULE Spec2Model ----------------------------
(***************************************************************************)
(* A model of the spec-view hooks in src/components/ui/link-button.tsx:    *)
(*   - methodDataMapper and the endpoint extraction of parseSwaggerSpec,   *)
(*   - useSpecParser, one parse cycle per selected document, suspended at  *)
(*     the parser, at the dynamic import of js-yaml and at the resolver,   *)
(*   - useGraphVisualization and toggleNodeExpansion,                      *)
(*   - useLocalStorageSpecs, its load effect and saveSpecs,                *)
(* and of the two pages:                                                   *)
(*   - src/pages/viewer.tsx: the schema graph of extractNodesAndEdges and  *)
(*     the loads, deletions and imports of ViewerPage,                     *)
(*   - src/pages/index.tsx: the spec list of EditorPage and what it        *)
(*     stores under the storage key.                                       *)
(* JavaScript strings are TLA+ strings (TLC evaluates Len, \o, SubSeq,     *)
(* Head and Tail on them), arrays are sequences, and an object used as a   *)
(* map is a sequence of entries in insertion order or a function from its  *)
(* keys.                                                                   *)
(***************************************************************************)
EXTENDS Integers, Sequences, FiniteSets, TLC

VARIABLES
    \* useGraphVisualization
    graphEndpoints,   \* the endpoints argument of the hook
    apiName,          \* the apiName argument of the hook
    nodes,            \* useState<Node[]>, with every queued updater applied
    edges,            \* useState<Edge[]>, with every queued updater applied
    handlerNodes,     \* the nodes value closed over by toggleNodeExpansion
    toggles,          \* number of toggleNodeExpansion calls so far
    \* useSpecParser
    spec,             \* the selected document (the spec argument), or NoSpec
    cycles,           \* the parseSwaggerSpec invocations started so far
    endpoints,        \* useState<Endpoint[]>
    isLoading,        \* useState<boolean>
    error,            \* useState<string | null>
    validationErrors, \* useState<ValidationError[]>
    specVersion,      \* useState<string>
    selections,       \* number of changes of the spec argument so far
    \* the pages and the storage
    viewerPage,       \* the state values of ViewerPage and its loads in flight
    editorPage,       \* the state values of EditorPage
    storageHook,      \* the state values of useLocalStorageSpecs
    localStorage      \* the item stored under the storage key

graphVars == <<graphEndpoints, apiName, nodes, edges, handlerNodes, toggles>>
parserVars == <<spec, cycles, endpoints, isLoading, error, validationErrors,
                specVersion, selections>>
pageVars == <<viewerPage, editorPage, storageHook, localStorage>>
vars == <<graphEndpoints, apiName, nodes, edges, handlerNodes, toggles,
          spec, cycles, endpoints, isLoading, error, validationErrors,
          specVersion, selections,
          viewerPage, editorPage, storageHook, localStorage>>

----------------------------------------------------------------------------
(* Bounds of the model *)

\* paths of a document whose graph is built
MaxGraphPaths == 3
\* toggleNodeExpansion calls in the run with re-renders in between
MaxToggles == 3
\* paths of a document whose endpoints are extracted
MaxPaths == 3
\* changes of the selected document
MaxSelections == 2
\* loads started in the viewer page
MaxLoads == 2
\* values of Math.random that one build can tell apart
MaxDraws == 2
\* specs created in the editor page
MaxSaved == 1
\* specs of a list that is stored
MaxStored == 2

----------------------------------------------------------------------------
(* String helpers: String.prototype.startsWith, includes, replace *)

\* The characters i..j of s that exist (a substring that never fails)
Slice(s, i, j) ==
    IF i > j \/ i > Len(s) \/ j < 1 THEN ""
    ELSE SubSeq(s, IF i < 1 THEN 1 ELSE i, IF j > Len(s) THEN Len(s) ELSE j)

StartsWith(s, p) == Len(p) <= Len(s) /\ SubSeq(s, 1, Len(p)) = p

Includes(s, sub) ==
    \E i \in 1..(Len(s) - Len(sub) + 1) : SubSeq(s, i, i + Len(sub) - 1) = sub

\* s.replace(/[chars]/g, r)
RECURSIVE ReplaceEach(_, _, _)
ReplaceEach(s, chars, r) ==
    IF s = "" THEN ""
    ELSE (IF Head(s) \in chars THEN r ELSE Head(s)) \o ReplaceEach(Tail(s), chars, r)

\* s.replace(pat, r) with a string pattern: the first occurrence only
RECURSIVE ReplaceFirst(_, _, _)
ReplaceFirst(s, pat, r) ==
    IF StartsWith(s, pat) THEN r \o SubSeq(s, Len(pat) + 1, Len(s))
    ELSE IF s = "" THEN ""
    ELSE Head(s) \o ReplaceFirst(Tail(s), pat, r)

\* Character classes of the regular expressions: \w, and \w with "." or ","
WordChars ==
    {"a","b","c","d","e","f","g","h","i","j","k","l","m","n","o","p","q","r",
     "s","t","u","v","w","x","y","z",
     "A","B","C","D","E","F","G","H","I","J","K","L","M","N","O","P","Q","R",
     "S","T","U","V","W","X","Y","Z",
     "0","1","2","3","4","5","6","7","8","9","_"}

\* The last index of the longest run of characters of ok that starts at i
\* (i - 1 when the run is empty): a greedy [ok]*
RECURSIVE RunEnd(_, _, _)
RunEnd(s, i, ok) ==
    IF i <= Len(s) /\ Slice(s, i, i) \in ok THEN RunEnd(s, i + 1, ok) ELSE i - 1

\* The same for a negated class: a greedy [^bad]*
RECURSIVE RunEndNot(_, _, _)
RunEndNot(s, i, bad) ==
    IF i <= Len(s) /\ Slice(s, i, i) \notin bad THEN RunEndNot(s, i + 1, bad) ELSE i - 1

\* The least element of a non-empty set of integers
Least(S) == CHOOSE i \in S : \A j \in S : i <= j

\* method.toUpperCase() and method.toLowerCase() on the HTTP method names
toUpperCase(m) ==
    CASE m = "get" -> "GET" [] m = "post" -> "POST" [] m = "put" -> "PUT"
      [] m = "delete" -> "DELETE" [] m = "patch" -> "PATCH"
      [] m = "options" -> "OPTIONS" [] m = "head" -> "HEAD" [] OTHER -> m

toLowerCase(m) ==
    CASE m = "GET" -> "get" [] m = "POST" -> "post" [] m = "PUT" -> "put"
      [] m = "DELETE" -> "delete" [] m = "PATCH" -> "patch"
      [] m = "OPTIONS" -> "options" [] m = "HEAD" -> "head" [] OTHER -> m

\* lodash kebabCase on operation ids made of lower-case letters and the
\* separators "_", "-" and " ": the words between separators joined by "-"
RECURSIVE KebabWords(_, _, _)
KebabWords(s, word, out) ==
    IF s = "" THEN
        (IF word = "" THEN out ELSE IF out = "" THEN word ELSE out \o "-" \o word)
    ELSE IF Head(s) \in {"_", "-", " "} THEN
        KebabWords(Tail(s), "",
            IF word = "" THEN out ELSE IF out = "" THEN word ELSE out \o "-" \o word)
    ELSE KebabWords(Tail(s), word \o Head(s), out)

kebabCase(s) == KebabWords(s, "", "")

----------------------------------------------------------------------------
(* JavaScript values of a document, and lodash get *)

\* undefined, null, a string, and an object: its entries in the order
\* Object.keys enumerates them
JUndefined == [kind |-> "undefined", text |-> "", entries |-> <<>>]
JNull == [kind |-> "null", text |-> "", entries |-> <<>>]
JString(t) == [kind |-> "string", text |-> t, entries |-> <<>>]
JObject(entries) == [kind |-> "object", text |-> "", entries |-> entries]

Entry(key, value) == [key |-> key, value |-> value]

\* true and false, a number by its decimal text, and an array: its entries
\* are its items under their indices
JBool(b) == [kind |-> "boolean", text |-> IF b THEN "true" ELSE "false", entries |-> <<>>]
JNumber(t) == [kind |-> "number", text |-> t, entries |-> <<>>]
JArray(items) ==
    [kind |-> "array", text |-> "",
     entries |-> [i \in 1..Len(items) |-> Entry(ToString(i - 1), items[i])]]

\* !!v
Truthy(v) ==
    \/ v.kind \in {"object", "array"}
    \/ (v.kind = "string" /\ v.text # "")
    \/ (v.kind = "boolean" /\ v.text = "true")
    \/ (v.kind = "number" /\ v.text # "0")

\* key in Object(obj)
HasKey(obj, key) ==
    obj.kind = "object" /\ \E i \in 1..Len(obj.entries) : obj.entries[i].key = key

\* obj[key] of an object or a string that is not null or undefined
Prop(obj, key) ==
    IF HasKey(obj, key)
    THEN obj.entries[CHOOSE i \in 1..Len(obj.entries) : obj.entries[i].key = key].value
    ELSE JUndefined

\* Object.keys(obj)[0] ?? ''
FirstKey(obj) == IF Len(obj.entries) = 0 THEN "" ELSE obj.entries[1].key

\* The keys of a property path without brackets (lodash stringToPath): the
\* pieces between its dots
RECURSIVE SplitDots(_, _)
SplitDots(s, piece) ==
    IF s = "" THEN <<piece>>
    ELSE IF Head(s) = "." THEN <<piece>> \o SplitDots(Tail(s), "")
    ELSE SplitDots(Tail(s), piece \o Head(s))

\* lodash castPath: a path that is a key of the object, or has no dot, is
\* one key
CastPath(obj, path) ==
    IF HasKey(obj, path) \/ ~Includes(path, ".") THEN <<path>> ELSE SplitDots(path, "")

\* lodash baseGet from key i of keys
RECURSIVE BaseGet(_, _, _)
BaseGet(obj, keys, i) ==
    IF i > Len(keys) THEN obj
    ELSE IF obj.kind \in {"null", "undefined"} THEN JUndefined
    ELSE BaseGet(Prop(obj, keys[i]), keys, i + 1)

\* lodash get(obj, path, defaultValue)
Get(obj, path, defaultValue) ==
    LET result == IF obj.kind \in {"null", "undefined"} THEN JUndefined
                  ELSE BaseGet(obj, CastPath(obj, path), 1)
    IN IF result.kind = "undefined" THEN defaultValue ELSE result

----------------------------------------------------------------------------
(* Documents: the paths map of a resolved document *)

\* An operation object. parameters is "absent", a well-formed "array", or a
\* malformed value: an "object" (no map method) or "null".
\* responsesKind is "map", "absent" or "null".
Operation(operationId, parameters, responsesKind, responses) ==
    [kind |-> "object", operationId |-> operationId, parameters |-> parameters,
     responsesKind |-> responsesKind, responses |-> responses]

\* An entry of the responses map: its key and the response value
Response(statusCode, value) == [statusCode |-> statusCode, value |-> value]

\* The response object {description: "ok"} under the key statusCode
ResponseEntry(statusCode) ==
    Response(statusCode, JObject(<<Entry("description", JString("ok"))>>))

\* A path item that is an object: a function from its keys to operations
PathObject(ops) == [kind |-> "object", ops |-> ops]
\* A path item that is null, and one that is a string
PathNull == [kind |-> "null", ops |-> <<>>]
PathString == [kind |-> "string", ops |-> <<>>]

\* The i-th path key of a generated document
PathName(i) ==
    CASE i = 1 -> "/a/b" [] i = 2 -> "/a-b" [] i = 3 -> "/c" [] i = 4 -> "/{d}"
      [] OTHER -> "/e"

\* Every paths map of 1..n entries whose items come from pool
DocsOver(pool, n) ==
    UNION { { [i \in 1..k |-> [path |-> PathName(i), item |-> f[i]]] :
                f \in [1..k -> pool] } : k \in 1..n }

----------------------------------------------------------------------------
(* methodDataMapper *)

\* The id of the endpoint record (line 175)
EndpointId(path, method, operationId) ==
    IF operationId # "" THEN kebabCase(operationId)
    ELSE toLowerCase(method) \o "-"
           \o ReplaceEach(ReplaceEach(path, {"/"}, "-"), {"{", "}"}, "_")

\* The TypeError message methodDataMapper throws with, or "" when it returns
MapperThrows(methodObj) ==
    IF methodObj.parameters = "object" THEN "parametersArr.map is not a function"
    ELSE IF methodObj.parameters = "null"
        THEN "Cannot read properties of null (reading 'map')"
    ELSE IF methodObj.responsesKind = "null"
        THEN "Cannot convert undefined or null to object"
    ELSE ""

\* contentResolver (lines 111-119)
contentResolver(contentObj) ==
    IF contentObj.kind # "object"
    THEN JObject(<<Entry("type", JString("")), Entry("schema", JNull)>>)
    ELSE LET type == FirstKey(contentObj)
             schema == Get(contentObj, type \o ".schema", JNull)
         IN JObject(<<Entry("type", JString(type)), Entry("schema", schema)>>)

\* resolveResponseContent (lines 121-128)
resolveResponseContent(content) ==
    IF ~Truthy(content) THEN JUndefined
    ELSE IF Truthy(Prop(content, "type")) \/ Truthy(Prop(content, "schema")) THEN content
    ELSE contentResolver(content)

\* The callback of Object.entries(responsesObj).map (lines 153-172)
MapResponse(entry) ==
    IF entry.value.kind = "string" THEN
        [statusCode |-> entry.statusCode, description |-> entry.value, content |-> JUndefined]
    ELSE
        [statusCode |-> entry.statusCode,
         description |-> Get(entry.value, "description", JString("")),
         content |-> resolveResponseContent(Get(entry.value, "content", JObject(<<>>)))]

methodDataMapper(path, method, methodObj) ==
    [id |-> EndpointId(path, method, methodObj.operationId),
     method |-> toUpperCase(method),
     path |-> path,
     responses |-> IF methodObj.responsesKind = "map"
                   THEN [i \in 1..Len(methodObj.responses) |->
                            MapResponse(methodObj.responses[i])]
                   ELSE <<>>]

----------------------------------------------------------------------------
(* The endpoint extraction of parseSwaggerSpec (lines 398-458) *)

\* A ValidationError; path "" stands for an absent path
Diagnostic(path, message, severity) ==
    [path |-> path, message |-> message, severity |-> severity]

\* const methods (line 417)
ExtractorMethods == <<"get", "post", "put", "delete", "patch", "options">>

\* pathObj[method] is truthy
HasOperation(item, method) ==
    /\ item.kind = "object"
    /\ method \in DOMAIN item.ops
    /\ item.ops[method].kind = "object"

\* The message of the warning pushed in the catch of lines 429-452
MethodErrorMessage(path, method, thrown) ==
    IF Includes(thrown, "parameters")
        THEN "Invalid parameters in " \o toUpperCase(method) \o " " \o path
    ELSE IF Includes(thrown, "responses")
        THEN "Invalid responses in " \o toUpperCase(method) \o " " \o path
    ELSE IF Includes(thrown, "requestBody")
        THEN "Invalid request body in " \o toUpperCase(method) \o " " \o path
    ELSE "Error processing endpoint " \o toUpperCase(method) \o " " \o path

MethodWarning(path, method, thrown) ==
    Diagnostic("paths." \o path \o "." \o method,
               MethodErrorMessage(path, method, thrown), "warning")

\* methods.forEach over one path item (lines 419-455), from method index j,
\* acc = [endpoints, warnings]
RECURSIVE ExtractMethods(_, _, _, _)
ExtractMethods(path, item, j, acc) ==
    IF j > Len(ExtractorMethods) THEN acc
    ELSE LET method == ExtractorMethods[j] IN
         IF ~HasOperation(item, method) THEN ExtractMethods(path, item, j + 1, acc)
         ELSE LET thrown == MapperThrows(item.ops[method]) IN
              IF thrown = "" THEN
                  ExtractMethods(path, item, j + 1,
                      [acc EXCEPT !.endpoints =
                          Append(@, methodDataMapper(path, method, item.ops[method]))])
              ELSE
                  ExtractMethods(path, item, j + 1,
                      [acc EXCEPT !.warnings =
                          Append(@, MethodWarning(path, method, thrown))])

\* Object.entries(paths).forEach (lines 415-456), from entry i. Reading
\* pathObj[method] of a null path item throws out of the loop: thrown is the
\* TypeError message, and the warnings queued so far stay queued.
RECURSIVE ExtractPaths(_, _, _)
ExtractPaths(paths, i, acc) ==
    IF i > Len(paths) THEN acc
    ELSE IF paths[i].item.kind = "null" THEN
        [acc EXCEPT !.thrown = "Cannot read properties of null (reading 'get')"]
    ELSE ExtractPaths(paths, i + 1,
             ExtractMethods(paths[i].path, paths[i].item, 1, acc))

ExtractEndpoints(paths) ==
    ExtractPaths(paths, 1, [endpoints |-> <<>>, warnings |-> <<>>, thrown |-> ""])

----------------------------------------------------------------------------
(* useGraphVisualization (lines 564-715) *)

\* calculatePosition (lines 593-606), its coordinates rounded to integers
calculatePosition(index) ==
    CASE index = 0 -> [x |-> 650, y |-> 300]
      [] index = 1 -> [x |-> 179, y |-> 503]
      [] index = 2 -> [x |-> 431, y |-> -49]
      [] index = 3 -> [x |-> 552, y |-> 498]
      [] index = 4 -> [x |-> 105, y |-> 248]
      [] index = 5 -> [x |-> 695, y |-> 112]
      [] index = 6 -> [x |-> 335, y |-> 541]
      [] OTHER -> [x |-> 262, y |-> 34]

\* A Node. expanded is FALSE for the nodes that carry no expanded field
\* (api, response); responses is the data.responses of an endpoint node and
\* label its data.label (the api name, the path, or the status code).
Node(id, type, x, y, expanded, label, responses) ==
    [id |-> id, type |-> type, x |-> x, y |-> y, expanded |-> expanded,
     label |-> label, responses |-> responses]

Edge(id, source, target, type) ==
    [id |-> id, source |-> source, target |-> target, type |-> type]

rootNodeId == "api-root"

\* The endpoint node pushed at lines 611-626 for the endpoint at index
EndpointNode(endpoint, index) ==
    Node("endpoint-" \o endpoint.id, "endpoint",
         calculatePosition(index).x, calculatePosition(index).y,
         FALSE, endpoint.path, endpoint.responses)

\* The edge pushed at lines 629-634
RootEdge(endpoint) ==
    Edge("edge-root-" \o endpoint.id, rootNodeId, "endpoint-" \o endpoint.id, "bezier")

\* The effect of lines 568-639: newNodes and newEdges
BuildNodes(eps, name) ==
    IF Len(eps) = 0 THEN <<>>
    ELSE <<Node(rootNodeId, "api", 400, 100, FALSE, name, <<>>)>>
           \o [i \in 1..Len(eps) |-> EndpointNode(eps[i], i - 1)]

BuildEdges(eps) ==
    IF Len(eps) = 0 THEN <<>>
    ELSE [i \in 1..Len(eps) |-> RootEdge(eps[i])]

\* nodes.find(n => n.id === nodeId): the index of the first match, 0 if none
FindIndex(ns, nodeId) ==
    IF \E i \in 1..Len(ns) : ns[i].id = nodeId
    THEN CHOOSE i \in 1..Len(ns) :
            ns[i].id = nodeId /\ \A j \in 1..(i - 1) : ns[j].id # nodeId
    ELSE 0

\* The response node and edge of lines 671-692, index counted from 0
ResponseNodeId(endpointId, response) ==
    "response-" \o endpointId \o "-" \o response.statusCode

\* A placement that puts every response on the first row below its endpoint
ResponseNodeOnFirstRow(node, endpointId, response, index) ==
    Node(ResponseNodeId(endpointId, response), "response",
         node.x, node.y + 120, FALSE, response.statusCode, <<>>)

ResponseNode(node, endpointId, response, index) ==
    Node(ResponseNodeId(endpointId, response), "response",
         node.x, node.y + 120 + (index * 80), FALSE, response.statusCode, <<>>)

ResponseEdge(nodeId, endpointId, response) ==
    Edge("edge-" \o nodeId \o "-" \o ResponseNodeId(endpointId, response),
         nodeId, ResponseNodeId(endpointId, response), "straight")

\* The filters of lines 703-710
KeepNodeOnCollapse(n, endpointId) == ~StartsWith(n.id, "response-" \o endpointId)

KeepEdgeOnCollapse(e, nodeId) == ~StartsWith(e.id, "edge-" \o nodeId)

\* toggleNodeExpansion(nodeId) (lines 642-712) called from a render whose
\* nodes value is seen; g = [nodes, edges] is the state the queued updaters
\* are applied to. The result is the state after all of its updaters.
toggleNodeExpansion(seen, g, nodeId) ==
    LET k == FindIndex(seen, nodeId) IN
    IF k = 0 \/ seen[IF k = 0 THEN 1 ELSE k].type # "endpoint" THEN g
    ELSE
      LET node == seen[k]
          flipped == [i \in 1..Len(g.nodes) |->
                        IF g.nodes[i].id = nodeId
                        THEN [g.nodes[i] EXCEPT !.expanded = ~g.nodes[i].expanded]
                        ELSE g.nodes[i]]
          endpointId == ReplaceFirst(nodeId, "endpoint-", "")
          responses == node.responses
          responseNodes == [i \in 1..Len(responses) |->
                              ResponseNode(node, endpointId, responses[i], i - 1)]
          responseEdges == [i \in 1..Len(responses) |->
                              ResponseEdge(nodeId, endpointId, responses[i])]
          KeepNode(n) == KeepNodeOnCollapse(n, endpointId)
          KeepEdge(e) == KeepEdgeOnCollapse(e, nodeId)
      IN IF ~node.expanded
         THEN [nodes |-> flipped \o responseNodes, edges |-> g.edges \o responseEdges]
         ELSE [nodes |-> SelectSeq(flipped, KeepNode),
               edges |-> SelectSeq(g.edges, KeepEdge)]

----------------------------------------------------------------------------
(* validateSpecFormat (lines 188-267) *)

\* A parsed document (jsonContent). kind is "object", "string" (a YAML
\* scalar) or "null" (a falsy value); a field that is "" is absent;
\* info.kind and pathsKind are "object"/"map" or "absent".
JsonDoc(kind, openapi, swagger, info, pathsKind, paths) ==
    [kind |-> kind, openapi |-> openapi, swagger |-> swagger, info |-> info,
     pathsKind |-> pathsKind, paths |-> paths]

Info(title, version) == [kind |-> "object", title |-> title, version |-> version]
NoInfo == [kind |-> "absent", title |-> "", version |-> ""]

SupportedOpenApi == {"3.0.0", "3.0.1", "3.0.2", "3.0.3", "3.1.0"}

ValidatorMethods == {"get", "post", "put", "delete", "patch", "options", "head"}

\* Object.keys(pathObj).some(key => [...].includes(key.toLowerCase()))
HasRecognizedKey(item) ==
    item.kind = "object"
        /\ \E key \in DOMAIN item.ops : toLowerCase(key) \in ValidatorMethods

\* Object.values(spec.paths).some(...) of lines 251-255 from entry i:
\* "found", "none", or "throw" when Object.keys meets a null path item
RECURSIVE ScanOperations(_, _)
ScanOperations(paths, i) ==
    IF i > Len(paths) THEN "none"
    ELSE IF paths[i].item.kind = "null" THEN "throw"
    ELSE IF HasRecognizedKey(paths[i].item) THEN "found"
    ELSE ScanOperations(paths, i + 1)

PathsEmpty(doc) == doc.pathsKind # "map" \/ Len(doc.paths) = 0

\* The TypeError message validateSpecFormat throws with, or ""
ValidatorThrows(doc) ==
    IF doc.kind # "null" /\ ~PathsEmpty(doc) /\ ScanOperations(doc.paths, 1) = "throw"
    THEN "Cannot convert undefined or null to object"
    ELSE ""

VersionDiagnostics(doc) ==
    IF doc.openapi = "" /\ doc.swagger = "" THEN
        <<Diagnostic("", "Invalid API spec format: Missing OpenAPI/Swagger version identifier", "error")>>
    ELSE LET version == IF doc.openapi # "" THEN doc.openapi ELSE doc.swagger IN
         IF doc.openapi # "" /\ version \notin SupportedOpenApi THEN
            <<Diagnostic("", "OpenAPI version " \o version
                \o " may not be fully supported. Recommended versions: 3.0.x or 3.1.0", "warning")>>
         ELSE IF doc.swagger # "" /\ version # "2.0" THEN
            <<Diagnostic("", "Swagger version " \o version
                \o " may not be fully supported. Recommended version: 2.0", "warning")>>
         ELSE <<>>

InfoDiagnostics(doc) ==
    IF doc.info.kind # "object" THEN
        <<Diagnostic("", "Missing required \"info\" object in specification", "error")>>
    ELSE (IF doc.info.title = ""
          THEN <<Diagnostic("info.title", "API specification is missing required title", "error")>>
          ELSE <<>>)
      \o (IF doc.info.version = ""
          THEN <<Diagnostic("info.version", "API specification is missing version information", "error")>>
          ELSE <<>>)

PathsDiagnostics(doc) ==
    IF PathsEmpty(doc) THEN
        <<Diagnostic("", "API specification contains no endpoints (empty paths object)", "warning")>>
    ELSE IF ScanOperations(doc.paths, 1) = "none" THEN
        <<Diagnostic("paths", "API specification contains paths but no HTTP operations (GET, POST, etc.)", "warning")>>
    ELSE <<>>

\* The list validateSpecFormat returns when it does not throw
validateSpecFormat(doc) ==
    IF doc.kind = "null" THEN
        <<Diagnostic("", "Specification is empty or undefined", "error")>>
    ELSE VersionDiagnostics(doc) \o InfoDiagnostics(doc) \o PathsDiagnostics(doc)

----------------------------------------------------------------------------
(* useSpecParser (lines 270-561) *)

\* An ApiSpec as the parse cycle sees it.
\*   contentKind  "string", "object", or "other" (neither)
\*   format       "yaml" or "json"
\*   parserOk     OpenAPIParser.parse(tempUrl) fulfils
\*   jsonOk       JSON.parse(content) returns
\*   yamlOk       jsyaml.load(content) returns
\*   yamlPrefix   the trimmed content starts with openapi: or swagger:
\*   json         the parsed document
\*   resolver     what SwaggerClient.resolve does: "resolve", "reject", "hang"
\*   resolved     the document it resolves to
\*   rejectMessage the message it rejects with
ApiSpec(name, contentKind, format, parserOk, jsonOk, yamlOk, yamlPrefix, json, resolver, resolved, rejectMessage) ==
    [name |-> name, contentKind |-> contentKind, format |-> format,
     parserOk |-> parserOk, jsonOk |-> jsonOk, yamlOk |-> yamlOk,
     yamlPrefix |-> yamlPrefix, json |-> json, resolver |-> resolver,
     resolved |-> resolved, rejectMessage |-> rejectMessage]

EmptyJson == JsonDoc("null", "", "", NoInfo, "absent", <<>>)

\* spec === null
NoSpec ==
    ApiSpec("null", "none", "json", FALSE, FALSE, FALSE, FALSE, EmptyJson,
            "hang", EmptyJson, "")

\* The five state values of the hook
Hook ==
    [endpoints |-> endpoints, isLoading |-> isLoading, error |-> error,
     validationErrors |-> validationErrors, specVersion |-> specVersion]

\* The state of the first render (lines 271-275); error "null" is null
InitialHook ==
    [endpoints |-> <<>>, isLoading |-> FALSE, error |-> "null",
     validationErrors |-> <<>>, specVersion |-> ""]

\* The effect for spec === null (lines 278-284)
EffectNoSpec(h) ==
    [h EXCEPT !.endpoints = <<>>, !.error = "null", !.validationErrors = <<>>,
              !.specVersion = ""]

\* The effect for a document (lines 286-288)
EffectStart(h) ==
    [h EXCEPT !.isLoading = TRUE, !.error = "null", !.validationErrors = <<>>]

\* A step of a cycle: the hook state it leaves, where the cycle is suspended
\* next ("done" when it returned), and the error kept for a later catch
Step(h, pc, thrown) == [hook |-> h, pc |-> pc, thrown |-> thrown]

\* catch (parseError) of lines 363-372, then finally of lines 552-554
ParseFailed(h, message) ==
    Step([h EXCEPT !.error = "Failed to parse API specification: " \o message,
                   !.validationErrors =
                       <<Diagnostic("", "Content parsing error: " \o message, "error")>>,
                   !.endpoints = <<>>,
                   !.isLoading = FALSE],
         "done", "")

\* const version (lines 358-360)
VersionLabel(doc) ==
    IF doc.openapi # "" THEN "OpenAPI " \o doc.openapi
    ELSE IF doc.swagger # "" THEN "Swagger " \o doc.swagger
    ELSE "Unknown"

HasError(diags) == \E i \in 1..Len(diags) : diags[i].severity = "error"

\* Lines 349-361 with jsonContent = doc, up to the call of the resolver
AfterContent(h, doc) ==
    IF ValidatorThrows(doc) # "" THEN ParseFailed(h, ValidatorThrows(doc))
    ELSE LET initialValidationErrors == validateSpecFormat(doc)
             h1 == IF HasError(initialValidationErrors)
                   THEN [h EXCEPT !.validationErrors = initialValidationErrors]
                   ELSE h
         IN IF doc.kind = "null"
            THEN ParseFailed(h1, "Cannot read properties of null (reading 'openapi')")
            ELSE Step([h1 EXCEPT !.specVersion = VersionLabel(doc)], "resolve", "")

\* The synchronous part of parseSwaggerSpec, up to its first await
StartCycle(h, d) ==
    IF d.contentKind = "string" THEN Step(h, "parse", "")
    ELSE IF d.contentKind = "object" THEN AfterContent(h, d.json)
    ELSE ParseFailed(h, "Invalid specification format - must be a string or object")

\* OpenAPIParser.parse settles (lines 311-323)
AfterParser(h, d) ==
    IF d.parserOk THEN AfterContent(h, d.json)
    ELSE IF d.format = "yaml" \/ d.yamlPrefix THEN Step(h, "importYaml", "")
    ELSE IF d.jsonOk THEN AfterContent(h, d.json)
    \* JSON.parse throws into catch (blobError), where it throws again
    ELSE Step(h, "importFallback", "Unexpected token in JSON")

\* import('js-yaml') of line 318 settles: jsyaml.load, else the fallback
AfterImportYaml(h, d) ==
    IF d.yamlOk THEN AfterContent(h, d.json)
    ELSE IF d.jsonOk THEN AfterContent(h, d.json)
    ELSE Step(h, "importFallback", "bad indentation of a mapping entry")

\* import('js-yaml') of line 335 settles; blobMessage is blobError.message
AfterImportFallback(h, d, blobMessage) ==
    IF d.yamlOk THEN AfterContent(h, d.json)
    ELSE ParseFailed(h, "Failed to parse spec content: " \o blobMessage)

----------------------------------------------------------------------------
(* The catch of a resolver failure (lines 459-518) *)

\* errorMessage.replace(/\{[^{}]*\}/g, '{...}') (line 467)
RECURSIVE RedactObjects(_)
RedactObjects(s) ==
    IF s = "" THEN ""
    ELSE IF Head(s) = "{" THEN
        LET e == RunEndNot(s, 2, {"{", "}"}) IN
        IF e + 1 <= Len(s) /\ Slice(s, e + 1, e + 1) = "}"
        THEN "{...}" \o RedactObjects(Slice(s, e + 2, Len(s)))
        ELSE "{" \o RedactObjects(Tail(s))
    ELSE Head(s) \o RedactObjects(Tail(s))

\* The {50,} of line 468
LongValueLength == 50

\* .replace(/with value "[^"]{50,}"/g, 'with long value "[...]"') (line 468)
RECURSIVE RedactLongValues(_)
RedactLongValues(s) ==
    IF s = "" THEN ""
    ELSE IF StartsWith(s, "with value \"") THEN
        LET e == RunEndNot(s, 13, {"\""}) IN
        IF e - 12 >= LongValueLength /\ e + 1 <= Len(s)
        THEN "with long value \"[...]\"" \o RedactLongValues(Slice(s, e + 2, Len(s)))
        ELSE Head(s) \o RedactLongValues(Tail(s))
    ELSE Head(s) \o RedactLongValues(Tail(s))

\* const sanitizedError (lines 466-468)
SanitizedError(errorMessage) == RedactLongValues(RedactObjects(errorMessage))

\* The match of /[\w.]+ (is|requires|must|should) [^.]+/ that starts at i,
\* "" when there is none
SchemaMatchAt(s, i) ==
    LET e == RunEnd(s, i, WordChars \cup {"."})
        kws == { kw \in {"is", "requires", "must", "should"} :
                    /\ Slice(s, e + 1, e + Len(kw) + 2) = " " \o kw \o " "
                    /\ RunEndNot(s, e + Len(kw) + 3, {"."}) >= e + Len(kw) + 3 }
    IN IF e < i \/ kws = {} THEN ""
       ELSE LET kw == CHOOSE k \in kws : TRUE
            IN Slice(s, i, RunEndNot(s, e + Len(kw) + 3, {"."}))

\* errorMessage.match(...)[0] of line 473, "" for null
SchemaMatch(s) ==
    LET starts == { i \in 1..Len(s) : SchemaMatchAt(s, i) # "" }
    IN IF starts = {} THEN "" ELSE SchemaMatchAt(s, Least(starts))

\* errorMessage.match(/\$ref[^\s]+/)[0] of line 487, "" for null
RefMatch(s) ==
    LET starts == { i \in 1..Len(s) :
                      /\ Slice(s, i, i + 3) = "$ref"
                      /\ RunEndNot(s, i + 4, {" ", "\t", "\n"}) >= i + 4 }
    IN IF starts = {} THEN ""
       ELSE Slice(s, Least(starts), RunEndNot(s, Least(starts) + 4, {" ", "\t", "\n"}))

TypeLiteral == " is not of a type(s) "

\* The match of /([\w.]+) is not of a type\(s\) ([\w,]+)/ of line 500:
\* its two groups, found FALSE for null
TypeMatch(s) ==
    LET Ok(i) == LET e == RunEnd(s, i, WordChars \cup {"."})
                     t == e + Len(TypeLiteral) + 1
                 IN /\ e >= i
                    /\ Slice(s, e + 1, e + Len(TypeLiteral)) = TypeLiteral
                    /\ RunEnd(s, t, WordChars \cup {","}) >= t
        starts == { i \in 1..Len(s) : Ok(i) }
    IN IF starts = {} THEN [found |-> FALSE, token |-> "", types |-> ""]
       ELSE LET i == Least(starts)
                e == RunEnd(s, i, WordChars \cup {"."})
                t == e + Len(TypeLiteral) + 1
            IN [found |-> TRUE, token |-> Slice(s, i, e),
                types |-> Slice(s, t, RunEnd(s, t, WordChars \cup {","}))]

PropLiteral == "missing required property "

\* Group 1 of /missing required property ['"]([^'"]+)['"]/ of line 507,
\* "" for null
PropMatch(s) ==
    LET quotes == {"'", "\""}
        Ok(i) == LET q == i + Len(PropLiteral)
                     e == RunEndNot(s, q + 1, quotes)
                 IN /\ Slice(s, i, q - 1) = PropLiteral
                    /\ q <= Len(s) /\ Slice(s, q, q) \in quotes
                    /\ e >= q + 1
                    /\ e + 1 <= Len(s)
        starts == { i \in 1..Len(s) : Ok(i) }
    IN IF starts = {} THEN ""
       ELSE LET q == Least(starts) + Len(PropLiteral)
            IN Slice(s, q + 1, RunEndNot(s, q + 1, quotes))

\* The 200 of line 514
GenericLimit == 200

\* s.substring(0, n)
Substring0(s, n) == Slice(s, 1, IF Len(s) < n THEN Len(s) ELSE n)

\* catch (swaggerError) of lines 459-518 and the finally of lines 552-554;
\* message is swaggerError.message
ResolveFailed(h, message) ==
    LET errorMessage == IF message = "" THEN "Unknown error" ELSE message
        sanitizedError == SanitizedError(errorMessage)
        specificError == IF SchemaMatch(errorMessage) # "" THEN SchemaMatch(errorMessage)
                         ELSE "Schema format is invalid"
        reference == IF RefMatch(errorMessage) # "" THEN RefMatch(errorMessage)
                     ELSE "a reference"
        typeMatch == TypeMatch(errorMessage)
        propMatch == PropMatch(errorMessage)
        h1 ==
            IF Includes(errorMessage, "schema") THEN
                [h EXCEPT !.error = "Schema validation failed: " \o specificError,
                          !.validationErrors =
                              Append(@, Diagnostic("", "Schema error: " \o specificError, "error"))]
            ELSE IF Includes(errorMessage, "reference") THEN
                [h EXCEPT !.error = "Invalid reference in specification: Could not resolve "
                                        \o reference,
                          !.validationErrors =
                              Append(@, Diagnostic("", "Reference error: Could not resolve "
                                                           \o reference, "error"))]
            ELSE IF Includes(errorMessage, "is not of a type") THEN
                [h EXCEPT !.error =
                    IF typeMatch.found
                    THEN "Type error: " \o typeMatch.token \o " should be " \o typeMatch.types
                    ELSE "Type error in specification: " \o sanitizedError]
            ELSE IF Includes(errorMessage, "required property") THEN
                [h EXCEPT !.error =
                    IF propMatch # "" THEN "Missing required property: '" \o propMatch \o "'"
                    ELSE "Missing required property in specification"]
            ELSE
                [h EXCEPT !.error = "Failed to parse specification: "
                                        \o Substring0(sanitizedError, GenericLimit)]
    IN Step([h1 EXCEPT !.endpoints = <<>>, !.isLoading = FALSE], "done", "")

\* The resolver fulfilled with api (lines 394-458), then the finally
AfterResolve(h, api) ==
    LET paths == IF api.pathsKind = "map" THEN api.paths ELSE <<>>
        noPaths == IF Len(paths) = 0
                   THEN <<Diagnostic("", "API specification contains no paths or endpoints", "warning")>>
                   ELSE <<>>
        extracted == ExtractEndpoints(paths)
        h1 == [h EXCEPT !.validationErrors = @ \o noPaths \o extracted.warnings]
    IN IF extracted.thrown # "" THEN ResolveFailed(h1, extracted.thrown)
       ELSE Step([h1 EXCEPT !.endpoints = extracted.endpoints, !.isLoading = FALSE],
                 "done", "")

\* SwaggerClient.resolve settles for the document d
AfterResolver(h, d) ==
    IF d.resolver = "resolve" THEN AfterResolve(h, d.resolved)
    ELSE ResolveFailed(h, d.rejectMessage)

----------------------------------------------------------------------------
(* The schema graph of the viewer page (src/pages/viewer.tsx, lines 58-317) *)

\* typeof v === "object" for a v that is not null
IsObject(v) == v.kind \in {"object", "array"}

\* v?.[key]
OptProp(v, key) == IF v.kind \in {"null", "undefined"} THEN JUndefined ELSE Prop(v, key)

\* Object.entries(v) of a v that is not null or undefined: the characters
\* of a string under their indices, nothing for a number or a boolean
Entries(v) ==
    IF IsObject(v) THEN v.entries
    ELSE IF v.kind = "string"
        THEN [i \in 1..Len(v.text) |-> Entry(ToString(i - 1), JString(Slice(v.text, i, i)))]
    ELSE <<>>

\* `${v}` of a value inside a template literal
ToText(v) ==
    CASE v.kind \in {"string", "number", "boolean"} -> v.text
      [] v.kind = "object" -> "[object Object]"
      [] v.kind = "array" -> ""
      [] OTHER -> v.kind

\* The characters of the class [\s./{}:]
SeparatorChars == {" ", ".", "/", "{", "}", ":"}

\* !s.trim() of a string: it is empty or made of white space
IsBlank(s) == \A i \in 1..Len(s) : Slice(s, i, i) = " "

\* s.replace(/[chars]+/g, r): every run of characters of chars becomes one r
RECURSIVE ReplaceRuns(_, _, _)
ReplaceRuns(s, chars, r) ==
    IF s = "" THEN ""
    ELSE IF Head(s) \in chars
        THEN r \o ReplaceRuns(Slice(s, RunEnd(s, 1, chars) + 1, Len(s)), chars, r)
    ELSE Head(s) \o ReplaceRuns(Tail(s), chars, r)

\* An id that carries the random suffix whatever the key is
generateNodeIdWithSuffix(parentId, key, random) ==
    (IF ~IsBlank(parentId) THEN parentId ELSE "root")
        \o "-" \o ReplaceRuns(key, SeparatorChars, "_") \o "-" \o random

\* generateNodeId (lines 58-64); random is the value of
\* Math.random().toString(36).substring(7) if it is called
generateNodeId(parentId, key, random) ==
    LET safeParent == IF ~IsBlank(parentId) THEN parentId ELSE "root"
    IN IF IsBlank(key) THEN safeParent \o "-unknown-" \o random
       ELSE safeParent \o "-" \o ReplaceRuns(key, SeparatorChars, "_")

\* s.split('/').pop()
RECURSIVE LastSegment(_, _)
LastSegment(s, piece) ==
    IF s = "" THEN piece
    ELSE IF Head(s) = "/" THEN LastSegment(Tail(s), "")
    ELSE LastSegment(Tail(s), piece \o Head(s))

MyNode(id, text, type) == [id |-> id, text |-> text, type |-> type]

MyEdge(id, from, to) == [id |-> id, from |-> from, to |-> to]

\* The arrays nodes and edges while they are filled: thrown is the message
\* of the TypeError that ended the filling ("" if none did) and draws the
\* number of calls of Math.random so far
NoGraph == [nodes |-> <<>>, edges |-> <<>>, thrown |-> "", draws |-> 0]

\* nodes.push(node) followed by edges.push(edge)
Push(acc, node, edge) ==
    [acc EXCEPT !.nodes = Append(@, node), !.edges = Append(@, edge)]

Throw(acc, message) == [acc EXCEPT !.thrown = message]

\* The value of the next call of Math.random, and the arrays after a call
\* of generateNodeId with key
Draw(rands, acc) == rands[(acc.draws % Len(rands)) + 1]

Drawn(acc, key) == IF IsBlank(key) THEN [acc EXCEPT !.draws = @ + 1] ELSE acc

\* The reference node and edge of lines 139-148 and 155-164 below owner
PushReference(acc, owner, ref) ==
    IF ref.kind # "string" THEN Throw(acc, "$ref.split is not a function")
    ELSE Push(acc, MyNode(owner \o "-ref", "Ref: " \o LastSegment(ref.text, ""), "schema"),
              MyEdge(owner \o "-to-ref", owner, owner \o "-ref"))

\* requiredProps.includes(propName): Array.prototype.includes or
\* String.prototype.includes; any other value has no includes
HasIncludes(requiredProps) == requiredProps.kind \in {"array", "string"}

IncludesName(requiredProps, propName) ==
    IF requiredProps.kind = "string" THEN Includes(requiredProps.text, propName)
    ELSE \E i \in 1..Len(requiredProps.entries) :
            requiredProps.entries[i].value = JString(propName)

IsObjectSchema(schema) ==
    Prop(schema, "type") = JString("object") /\ Truthy(Prop(schema, "properties"))

IsArraySchema(schema) ==
    Prop(schema, "type") = JString("array") /\ Truthy(Prop(schema, "items"))

RECURSIVE extractSchemaNodes(_, _, _, _, _, _)
RECURSIVE ExtractProperties(_, _, _, _, _, _)

\* extractSchemaNodes (lines 69-166); acc holds nodes and edges
extractSchemaNodes(schema, parentId, acc, nodeName, nodeType, rands) ==
    IF acc.thrown # "" THEN acc
    ELSE IF ~Truthy(schema) \/ ~IsObject(schema) THEN acc
    ELSE
      LET nodeId == generateNodeId(parentId, nodeName, Draw(rands, acc))
          pushed == Push(Drawn(acc, nodeName), MyNode(nodeId, nodeName, nodeType),
                         MyEdge(parentId \o "-to-" \o nodeId, parentId, nodeId))
          requiredProps == IF Truthy(Prop(schema, "required")) THEN Prop(schema, "required")
                           ELSE JArray(<<>>)
      IN IF IsObjectSchema(schema)
         THEN ExtractProperties(Entries(Prop(schema, "properties")), 1, requiredProps,
                                nodeId, pushed, rands)
         ELSE IF IsArraySchema(schema)
         THEN extractSchemaNodes(Prop(schema, "items"), nodeId, pushed, "Array Items",
                                 "array", rands)
         ELSE IF Truthy(Prop(schema, "$ref"))
         THEN PushReference(pushed, nodeId, Prop(schema, "$ref"))
         ELSE pushed

\* The forEach of lines 108-150 from the property at index i
ExtractProperties(properties, i, requiredProps, nodeId, acc, rands) ==
    IF acc.thrown # "" \/ i > Len(properties) THEN acc
    ELSE
      LET propName == properties[i].key
          propSchema == properties[i].value
          propNodeId == generateNodeId(nodeId, propName, Draw(rands, acc))
          drawn == Drawn(acc, propName)
      IN IF ~HasIncludes(requiredProps)
         THEN Throw(drawn, "requiredProps.includes is not a function")
         ELSE IF propSchema.kind \in {"null", "undefined"}
         THEN Throw(drawn, "Cannot read properties of null (reading 'type')")
         ELSE
           LET isRequired == IncludesName(requiredProps, propName)
               propType == IF Truthy(Prop(propSchema, "type"))
                           THEN ToText(Prop(propSchema, "type")) ELSE "object"
               displayName == propName \o (IF isRequired THEN "*" ELSE "") \o ": " \o propType
               pushed == Push(drawn, MyNode(propNodeId, displayName, "property"),
                              MyEdge(nodeId \o "-to-" \o propNodeId, nodeId, propNodeId))
               nested ==
                   IF IsObjectSchema(propSchema)
                   THEN extractSchemaNodes(propSchema, propNodeId, pushed, "Object",
                                           "schema", rands)
                   ELSE IF IsArraySchema(propSchema)
                   THEN extractSchemaNodes(Prop(propSchema, "items"), propNodeId, pushed,
                                           "Array Items", "array", rands)
                   ELSE IF Truthy(Prop(propSchema, "$ref"))
                   THEN PushReference(pushed, propNodeId, Prop(propSchema, "$ref"))
                   ELSE pushed
           IN ExtractProperties(properties, i + 1, requiredProps, nodeId, nested, rands)

\* v?.content?.["application/json"]?.schema
JsonSchemaOf(v) == OptProp(OptProp(OptProp(v, "content"), "application/json"), "schema")

ViewerMethods == {"get", "post", "put", "delete", "patch"}

\* The forEach of lines 236-257 from the response at index i
RECURSIVE ExtractResponses(_, _, _, _, _)
ExtractResponses(responses, i, endpointId, acc, rands) ==
    IF acc.thrown # "" \/ i > Len(responses) THEN acc
    ELSE
      LET status == responses[i].key
          responseSchema == JsonSchemaOf(responses[i].value)
          responseNodeId == generateNodeId(endpointId, "response_" \o status, Draw(rands, acc))
          pushed == Push(acc, MyNode(responseNodeId, status \o " Response", "response"),
                         MyEdge(endpointId \o "-to-" \o responseNodeId, endpointId,
                                responseNodeId))
      IN ExtractResponses(responses, i + 1, endpointId,
             IF Truthy(responseSchema)
             THEN extractSchemaNodes(responseSchema, responseNodeId, pushed, "Schema",
                                     "schema", rands)
             ELSE acc,
             rands)

\* The forEach of lines 275-296 from the parameter at index i
RECURSIVE ExtractParameters(_, _, _, _, _)
ExtractParameters(parameters, i, paramsNodeId, acc, rands) ==
    IF acc.thrown # "" \/ i > Len(parameters) THEN acc
    ELSE
      LET param == parameters[i].value
      IN IF param.kind \in {"null", "undefined"}
         THEN Throw(acc, "Cannot read properties of null (reading 'name')")
         ELSE
           LET name == ToText(Prop(param, "name"))
               location == ToText(Prop(param, "in"))
               paramNodeId == generateNodeId(paramsNodeId, name \o "_" \o location, Draw(rands, acc))
               pushed == Push(acc,
                              MyNode(paramNodeId,
                                     name \o " (" \o location \o ")"
                                          \o (IF Truthy(Prop(param, "required")) THEN "*" ELSE ""),
                                     "property"),
                              MyEdge(paramsNodeId \o "-to-" \o paramNodeId, paramsNodeId,
                                     paramNodeId))
           IN ExtractParameters(parameters, i + 1, paramsNodeId,
                  IF Truthy(Prop(param, "schema"))
                  THEN extractSchemaNodes(Prop(param, "schema"), paramNodeId, pushed,
                                          "Schema", "schema", rands)
                  ELSE pushed,
                  rands)

\* The body of the inner forEach for a method of ViewerMethods (lines 195-297)
ExtractOperation(path, method, details, acc, rands) ==
    IF details.kind \in {"null", "undefined"}
    THEN Throw(acc, "Cannot read properties of null (reading 'summary')")
    ELSE
      LET endpointId == generateNodeId("root", method \o "_" \o path, Draw(rands, acc))
          endpoint == Push(acc, MyNode(endpointId, toUpperCase(method) \o " " \o path, "endpoint"),
                           MyEdge("root-to-" \o endpointId, "root", endpointId))
          requestSchema == JsonSchemaOf(OptProp(details, "requestBody"))
          requestNodeId == generateNodeId(endpointId, "request", Draw(rands, acc))
          request ==
              IF Truthy(requestSchema)
              THEN extractSchemaNodes(requestSchema, requestNodeId,
                       Push(endpoint, MyNode(requestNodeId, "Request Body", "request"),
                            MyEdge(endpointId \o "-to-" \o requestNodeId, endpointId,
                                   requestNodeId)),
                       "Schema", "schema", rands)
              ELSE endpoint
          responses ==
              IF Truthy(Prop(details, "responses"))
              THEN ExtractResponses(Entries(Prop(details, "responses")), 1, endpointId,
                                    request, rands)
              ELSE request
          parameters == Prop(details, "parameters")
          paramsNodeId == generateNodeId(endpointId, "parameters", Draw(rands, acc))
      IN IF responses.thrown # "" THEN responses
         ELSE IF parameters.kind = "string" /\ parameters.text # ""
         THEN Throw(responses, "details.parameters.forEach is not a function")
         ELSE IF parameters.kind = "array" /\ Len(parameters.entries) > 0
         THEN ExtractParameters(parameters.entries, 1, paramsNodeId,
                  Push(responses, MyNode(paramsNodeId, "Parameters", "schema"),
                       MyEdge(endpointId \o "-to-" \o paramsNodeId, endpointId, paramsNodeId)),
                  rands)
         ELSE responses

\* The inner forEach of lines 193-299 from the method at index j
RECURSIVE ExtractOperations(_, _, _, _, _)
ExtractOperations(path, methods, j, acc, rands) ==
    IF acc.thrown # "" \/ j > Len(methods) THEN acc
    ELSE ExtractOperations(path, methods, j + 1,
             IF methods[j].key \in ViewerMethods
             THEN ExtractOperation(path, methods[j].key, methods[j].value, acc, rands)
             ELSE acc,
             rands)

\* The outer forEach of lines 192-300 from the path at index i
RECURSIVE ExtractPathItems(_, _, _, _)
ExtractPathItems(paths, i, acc, rands) ==
    IF acc.thrown # "" \/ i > Len(paths) THEN acc
    ELSE IF paths[i].value.kind \in {"null", "undefined"}
        THEN Throw(acc, "Cannot convert undefined or null to object")
    ELSE ExtractPathItems(paths, i + 1,
             ExtractOperations(paths[i].key, Entries(paths[i].value), 1, acc, rands),
             rands)

\* extractNodesAndEdges (lines 171-303): the arrays it returns, or the
\* TypeError it throws
extractNodesAndEdges(document, rands) ==
    IF ~Truthy(document) \/ ~Truthy(Prop(document, "paths")) THEN NoGraph
    ELSE
      LET title == OptProp(Prop(document, "info"), "title")
          root == [NoGraph EXCEPT !.nodes =
                      <<MyNode("root", IF Truthy(title) THEN ToText(title) ELSE "API",
                               "endpoint")>>]
      IN ExtractPathItems(Entries(Prop(document, "paths")), 1, root, rands)

\* The content of a stored document: whether YAML.parse and the client
\* accept it, and the document the client resolves it to
Content(parses, document) == [parses |-> parses, document |-> document]

EmptyGraph == [nodes |-> <<>>, edges |-> <<>>]

\* What parseOpenAPISpec resolves to (lines 308-317): the catch replaces
\* every throw by the empty graph
parseOpenAPISpec(content, rands) ==
    IF ~content.parses THEN EmptyGraph
    ELSE LET built == extractNodesAndEdges(content.document, rands)
         IN IF built.thrown # "" THEN EmptyGraph
            ELSE [nodes |-> built.nodes, edges |-> built.edges]

\* The values Math.random can take in one build, call by call
Suffixes == {"k3f9x", "q7m2z"}

RandomDraws == [1..MaxDraws -> Suffixes]

----------------------------------------------------------------------------
(* ViewerPage (src/pages/viewer.tsx, lines 424-528) *)

SpecDocument(id, content) == [id |-> id, content |-> content]

\* currentSpec === null
NoDocument == SpecDocument("null", Content(FALSE, JNull))

\* The state of the first render (lines 425-432); loads are the calls of
\* loadSpec so far, each suspended at its await ("parse") or returned
\* ("done"), and now is the value of Date.now()
InitialViewerPage ==
    [specs |-> <<>>, currentSpec |-> NoDocument, parsedData |-> EmptyGraph,
     loading |-> FALSE, error |-> "null", loads |-> <<>>, now |-> 1]

\* loadSpec up to its await (lines 476-483)
StartLoad(page, document) ==
    [page EXCEPT !.loading = TRUE, !.error = "null", !.currentSpec = document,
                 !.loads = Append(@, [spec |-> document, pc |-> "parse",
                                      parsed |-> EmptyGraph])]

\* loadSpec after its await (lines 484 and 489-491): the load at index l
\* resumes with the graph its parse resolved to
FinishLoad(page, l, parsed) ==
    [page EXCEPT !.parsedData = parsed, !.loading = FALSE,
                 !.loads[l] = [@ EXCEPT !.pc = "done", !.parsed = parsed]]

\* deleteSpec (lines 494-501)
deleteSpec(page, id) ==
    LET KeepSpec(document) == document.id # id
        newSpecs == SelectSeq(page.specs, KeepSpec)
    IN IF page.currentSpec # NoDocument /\ page.currentSpec.id = id
       THEN [page EXCEPT !.specs = newSpecs, !.currentSpec = NoDocument,
                         !.parsedData = EmptyGraph]
       ELSE [page EXCEPT !.specs = newSpecs]

\* importSpec (lines 503-528) with a name and a text that are not blank:
\* loadSpec is called and not awaited, so that finally runs before the load
\* resumes
importSpec(page, content) ==
    IF ~content.parses
    THEN [page EXCEPT !.error = "Failed to import spec. Please check that the YAML/JSON is valid.",
                      !.loading = FALSE]
    ELSE LET newSpec == SpecDocument("spec-" \o ToString(page.now), content)
             started == StartLoad([page EXCEPT !.specs = Append(@, newSpec),
                                               !.now = @ + 1], newSpec)
         IN [started EXCEPT !.loading = FALSE]

----------------------------------------------------------------------------
(* The storage, EditorPage (src/pages/index.tsx, lines 267-587) and *)
(* useLocalStorageSpecs (link-button.tsx, lines 718-772) *)

\* The item under the storage key, by what JSON.parse makes of it:
\*   "null"     there is none: getItem returns null
\*   "empty"    the empty string
\*   "invalid"  a text JSON.parse rejects
\*   "array"    the JSON text of the array items
\*   "object"   the JSON text of the object items[1]
\*   "scalar"   the JSON text of a number, a string, a boolean or null
StoredItem(kind, items) == [kind |-> kind, items |-> items]

\* localStorage.getItem returns null
NothingStored == StoredItem("null", <<>>)

\* JSON.stringify(list) of an array
Stringify(list) == StoredItem("array", list)

\* if (item) of the string getItem returned
ItemTruthy(item) == item.kind \notin {"null", "empty"}

\* The message JSON.parse(item) throws with, or "" when it returns
JsonParseThrows(item) ==
    IF item.kind = "invalid" THEN "Unexpected token b in JSON at position 1" ELSE ""

SavedSpec(id, content, favorite) == [id |-> id, content |-> content, favorite |-> favorite]

\* currentSpec === null, and specToDelete === null
NoSavedSpec == SavedSpec("null", "", FALSE)

\* The texts yaml.load and JSON.parse reject
UnparseableTexts == {"a: [b", "{bad"}

Parses(text) == text \notin UnparseableTexts

\* The state of the first render (lines 269-279); now is Date.now()
InitialEditorPage ==
    [specs |-> <<>>, currentSpec |-> NoSavedSpec, editorValue |-> "", error |-> "null",
     isSaved |-> TRUE, specToDelete |-> "null", now |-> 1]

\* EXAMPLE_SPECS as the effect maps them (lines 301-308)
ExampleSpecs == <<SavedSpec("petstore-api", "openapi: 3.0.0", FALSE)>>

\* The effect of lines 289-310 for a stored item that is nothing or an array
EditorLoaded(page, item) ==
    IF ~ItemTruthy(item) THEN [page EXCEPT !.specs = ExampleSpecs]
    ELSE IF JsonParseThrows(item) # "" THEN [page EXCEPT !.specs = <<>>]
    ELSE [page EXCEPT !.specs = item.items]

\* handleEditorChange (lines 313-340)
handleEditorChange(page, value) ==
    [page EXCEPT !.editorValue = value, !.isSaved = FALSE,
                 !.error = IF Parses(value) THEN "null" ELSE "Invalid YAML syntax"]

\* The map of lines 372-374 and 584-586: change(spec) for the spec with id
ReplaceSpec(specs, id, Change(_)) ==
    [i \in 1..Len(specs) |-> IF specs[i].id = id THEN Change(specs[i]) ELSE specs[i]]

\* saveSpec (lines 343-409); writes tells whether localStorage.setItem
\* returns (it throws when the quota is exceeded). The page and the stored
\* item after the call
saveSpec(page, item, writes) ==
    IF IsBlank(page.editorValue)
    THEN [page |-> [page EXCEPT !.error = "Cannot save empty specification"], item |-> item]
    ELSE IF ~Parses(page.editorValue)
    THEN [page |-> [page EXCEPT !.error = "Failed to save: bad indentation"], item |-> item]
    ELSE
      LET isNew == page.currentSpec = NoSavedSpec
          id == IF isNew THEN "spec-" \o ToString(page.now) ELSE page.currentSpec.id
          newSpec == SavedSpec(id, page.editorValue, page.currentSpec.favorite)
          Saved(old) == newSpec
          updatedSpecs == IF isNew THEN Append(page.specs, newSpec)
                          ELSE ReplaceSpec(page.specs, id, Saved)
      IN [page |-> [page EXCEPT !.specs = updatedSpecs, !.currentSpec = newSpec,
                                !.isSaved = TRUE, !.error = "null",
                                !.now = IF isNew THEN @ + 1 ELSE @],
          item |-> IF writes THEN Stringify(updatedSpecs) ELSE item]

\* createNewSpec (lines 429-443); confirmed is the answer to window.confirm
createNewSpec(page, confirmed) ==
    IF ~page.isSaved /\ page.currentSpec # NoSavedSpec /\ ~confirmed THEN page
    ELSE [page EXCEPT !.currentSpec = NoSavedSpec, !.editorValue = "", !.error = "null",
                      !.isSaved = TRUE]

\* handleDelete (lines 446-449)
handleDelete(page, id) == [page EXCEPT !.specToDelete = id]

\* confirmDelete (lines 451-460): the state updates of createNewSpec are
\* queued after setSpecs
confirmDelete(page, confirmed) ==
    IF page.specToDelete = "null" THEN page
    ELSE LET Kept(saved) == saved.id # page.specToDelete
             cleared == IF page.currentSpec # NoSavedSpec
                           /\ page.currentSpec.id = page.specToDelete
                        THEN createNewSpec(page, confirmed) ELSE page
         IN [cleared EXCEPT !.specs = SelectSeq(page.specs, Kept), !.specToDelete = "null"]

\* handleImport (lines 463-508) of the text importValue
handleImport(page, importValue) ==
    IF IsBlank(importValue)
    THEN [page EXCEPT !.error = "Cannot import empty specification"]
    ELSE IF ~Parses(importValue)
    THEN [page EXCEPT !.error = "Failed to import: bad indentation"]
    ELSE LET newSpec == SavedSpec("spec-" \o ToString(page.now), importValue, FALSE)
         IN [page EXCEPT !.specs = Append(@, newSpec), !.currentSpec = newSpec,
                         !.editorValue = importValue, !.isSaved = TRUE, !.error = "null",
                         !.now = @ + 1]

\* toggleFavorite (lines 583-587)
toggleFavorite(page, id) ==
    LET Flipped(saved) == [saved EXCEPT !.favorite = ~saved.favorite]
    IN [page EXCEPT !.specs = ReplaceSpec(page.specs, id, Flipped)]

\* The state of the first render of useLocalStorageSpecs (lines 719-721)
InitialStorageHook == [specs |-> <<>>, isLoading |-> TRUE, storageError |-> "null"]

\* The effect of lines 724-757; readable tells whether getItem returns
LoadStored(item, readable) ==
    IF ~readable
    THEN [specs |-> <<>>, isLoading |-> FALSE,
          storageError |-> "Failed to access localStorage: The operation is insecure."]
    ELSE IF ~ItemTruthy(item)
    THEN [specs |-> <<>>, isLoading |-> FALSE, storageError |-> "null"]
    ELSE IF JsonParseThrows(item) # ""
    THEN [specs |-> <<>>, isLoading |-> FALSE,
          storageError |-> "Failed to parse stored data: " \o JsonParseThrows(item)]
    ELSE IF item.kind = "array"
    THEN [specs |-> item.items, isLoading |-> FALSE, storageError |-> "null"]
    ELSE IF item.kind = "object"
    THEN [specs |-> <<item.items[1]>>, isLoading |-> FALSE, storageError |-> "null"]
    ELSE [specs |-> <<>>, isLoading |-> FALSE,
          storageError |-> "Failed to parse stored data: Invalid data format in localStorage"]

\* A saveSpecs that sets specs before it writes
saveSpecsBeforeWrite(hook, item, newSpecs, writes) ==
    IF writes
    THEN [hook |-> [hook EXCEPT !.storageError = "null", !.specs = newSpecs],
          item |-> Stringify(newSpecs)]
    ELSE [hook |-> [hook EXCEPT !.specs = newSpecs, !.storageError =
                       "Failed to save to localStorage: The quota has been exceeded."],
          item |-> item]

\* saveSpecs (lines 760-769); writes tells whether setItem returns. The
\* hook and the stored item after the call
saveSpecs(hook, item, newSpecs, writes) ==
    IF writes
    THEN [hook |-> [hook EXCEPT !.storageError = "null", !.specs = newSpecs],
          item |-> Stringify(newSpecs)]
    ELSE [hook |-> [hook EXCEPT !.storageError =
                       "Failed to save to localStorage: The quota has been exceeded."],
          item |-> item]

\* No page is mounted
PagesIdle ==
    /\ viewerPage = InitialViewerPage
    /\ editorPage = InitialEditorPage
    /\ storageHook = InitialStorageHook
    /\ localStorage = NothingStored

----------------------------------------------------------------------------
(* The documents whose graph is built *)

GetOnly(op) == PathObject([m \in {"get"} |-> op])

GraphItems ==
    { GetOnly(Operation("pet", "absent", "map", <<ResponseEntry("200"), ResponseEntry("404")>>)),
      GetOnly(Operation("pets", "absent", "map", <<ResponseEntry("200")>>)),
      GetOnly(Operation("", "absent", "map", <<ResponseEntry("200")>>)),
      GetOnly(Operation("owner", "absent", "absent", <<>>)) }

\* operationId is unique among the operations that carry one
UniqueOperationIds(paths) ==
    \A i, j \in 1..Len(paths) :
        (i # j /\ paths[i].item.ops["get"].operationId # "")
            => paths[i].item.ops["get"].operationId # paths[j].item.ops["get"].operationId

GraphDocs == { d \in DocsOver(GraphItems, MaxGraphPaths) : UniqueOperationIds(d) }

\* The documents in which no endpoint id is a prefix of another one's
PrefixFree(eps) ==
    \A i, j \in 1..Len(eps) : i # j => ~StartsWith(eps[i].id, eps[j].id)

CleanDocs == { d \in GraphDocs : PrefixFree(ExtractEndpoints(d).endpoints) }

\* The first render of the hook with the endpoints of a document of docs
GraphBuilt(docs) ==
    \E d \in docs :
        /\ graphEndpoints = ExtractEndpoints(d).endpoints
        /\ apiName = "API"
        /\ nodes = BuildNodes(graphEndpoints, apiName)
        /\ edges = BuildEdges(graphEndpoints)
        /\ handlerNodes = nodes
        /\ toggles = 0

ParserIdle ==
    /\ spec = NoSpec
    /\ cycles = <<>>
    /\ endpoints = InitialHook.endpoints
    /\ isLoading = InitialHook.isLoading
    /\ error = InitialHook.error
    /\ validationErrors = InitialHook.validationErrors
    /\ specVersion = InitialHook.specVersion
    /\ selections = 0

\* Every id toggleNodeExpansion is called with: the ids of the nodes on
\* screen and one id of no node
ToggleIds == { nodes[i].id : i \in 1..Len(nodes) } \cup {"endpoint-none"}

\* A click on a node, handled by the toggleNodeExpansion of the last render
Toggle(nodeId) ==
    /\ toggles < MaxToggles
    /\ toggles' = toggles + 1
    /\ LET g == toggleNodeExpansion(handlerNodes, [nodes |-> nodes, edges |-> edges], nodeId)
       IN nodes' = g.nodes /\ edges' = g.edges
    /\ UNCHANGED <<graphEndpoints, apiName, handlerNodes>>
    /\ UNCHANGED parserVars
    /\ UNCHANGED pageVars

\* React re-renders: toggleNodeExpansion is re-created over the current nodes
Render ==
    /\ handlerNodes # nodes
    /\ handlerNodes' = nodes
    /\ UNCHANGED <<graphEndpoints, apiName, nodes, edges, toggles>>
    /\ UNCHANGED parserVars
    /\ UNCHANGED pageVars

\* A click handled after the re-render that followed the previous click
ToggleRendered(nodeId) ==
    /\ LET g == toggleNodeExpansion(nodes, [nodes |-> nodes, edges |-> edges], nodeId)
       IN nodes' = g.nodes /\ edges' = g.edges /\ handlerNodes' = g.nodes
    /\ UNCHANGED <<graphEndpoints, apiName, toggles>>
    /\ UNCHANGED parserVars
    /\ UNCHANGED pageVars

\* Toggles in sequence, each observing the state left by the previous one
InitGraph == GraphBuilt(GraphDocs) /\ ParserIdle /\ PagesIdle
NextGraph == \E nodeId \in ToggleIds : ToggleRendered(nodeId)
SpecGraph == InitGraph /\ [][NextGraph]_vars

\* Toggles in rapid succession: clicks and re-renders in any order
InitRapid == GraphBuilt(CleanDocs) /\ ParserIdle /\ PagesIdle
NextRapid == (\E nodeId \in ToggleIds : Toggle(nodeId)) \/ Render
SpecRapid == InitRapid /\ [][NextRapid]_vars

----------------------------------------------------------------------------
(* The parse cycles of useSpecParser as steps *)

SetHook(h) ==
    /\ endpoints' = h.endpoints
    /\ isLoading' = h.isLoading
    /\ error' = h.error
    /\ validationErrors' = h.validationErrors
    /\ specVersion' = h.specVersion

Cycle(d, step) == [doc |-> d, pc |-> step.pc, thrown |-> step.thrown]

\* The cycle c takes a step
Advance(c, step) ==
    /\ SetHook(step.hook)
    /\ cycles' = [cycles EXCEPT ![c] = Cycle(cycles[c].doc, step)]
    /\ UNCHANGED <<spec, selections>>
    /\ UNCHANGED graphVars
    /\ UNCHANGED pageVars

\* The spec argument changes to d, at most cap times: the effect of lines
\* 277-558 runs, with parseSwaggerSpec up to its first await
SelectSpec(d, cap) ==
    /\ selections < cap
    /\ d # spec
    /\ spec' = d
    /\ selections' = selections + 1
    /\ IF d = NoSpec
       THEN SetHook(EffectNoSpec(Hook)) /\ cycles' = cycles
       ELSE LET step == StartCycle(EffectStart(Hook), d)
            IN SetHook(step.hook) /\ cycles' = Append(cycles, Cycle(d, step))
    /\ UNCHANGED graphVars
    /\ UNCHANGED pageVars

\* await OpenAPIParser.parse(tempUrl) settles (line 311)
ParserSettles(c) ==
    /\ cycles[c].pc = "parse"
    /\ Advance(c, AfterParser(Hook, cycles[c].doc))

\* await import('js-yaml') settles (line 318)
ImportYamlSettles(c) ==
    /\ cycles[c].pc = "importYaml"
    /\ Advance(c, AfterImportYaml(Hook, cycles[c].doc))

\* await import('js-yaml') settles (line 335)
ImportFallbackSettles(c) ==
    /\ cycles[c].pc = "importFallback"
    /\ Advance(c, AfterImportFallback(Hook, cycles[c].doc, cycles[c].thrown))

\* await SwaggerClient.resolve(...) settles (line 387); a resolver that
\* hangs never does
ResolverSettles(c) ==
    /\ cycles[c].pc = "resolve"
    /\ cycles[c].doc.resolver # "hang"
    /\ Advance(c, AfterResolver(Hook, cycles[c].doc))

GraphEmpty ==
    /\ graphEndpoints = <<>>
    /\ apiName = "API"
    /\ nodes = <<>>
    /\ edges = <<>>
    /\ handlerNodes = <<>>
    /\ toggles = 0

----------------------------------------------------------------------------
(* The documents that are selected *)

PetOperation == Operation("pet", "absent", "map", <<ResponseEntry("200"), ResponseEntry("404")>>)
OwnerOperation == Operation("owner", "array", "map", <<ResponseEntry("200")>>)

PetPaths == <<[path |-> "/pets", item |-> GetOnly(PetOperation)]>>
OwnerPaths ==
    <<[path |-> "/owners",
       item |-> PathObject([m \in {"get", "post"} |-> OwnerOperation])]>>

PetJson == JsonDoc("object", "3.0.0", "", Info("Pets", "1"), "map", PetPaths)
OwnerJson == JsonDoc("object", "", "2.0", NoInfo, "map", OwnerPaths)
DraftJson == JsonDoc("object", "", "", Info("", "1"), "absent", <<>>)

\* Documents that differ in the way their content is read and resolved
ParseDocs ==
    { ApiSpec("pets", "object", "json", TRUE, TRUE, TRUE, FALSE, PetJson,
              "resolve", PetJson, ""),
      ApiSpec("owners", "string", "json", TRUE, TRUE, TRUE, FALSE, OwnerJson,
              "resolve", OwnerJson, ""),
      ApiSpec("draft", "string", "yaml", FALSE, FALSE, TRUE, TRUE, DraftJson,
              "reject", DraftJson, "Could not resolve reference $ref:#/x"),
      ApiSpec("mislabelled", "string", "json", FALSE, FALSE, TRUE, FALSE, PetJson,
              "resolve", PetJson, ""),
      ApiSpec("garbage", "string", "yaml", FALSE, FALSE, FALSE, FALSE, EmptyJson,
              "hang", EmptyJson, ""),
      ApiSpec("number", "other", "json", FALSE, FALSE, FALSE, FALSE, EmptyJson,
              "hang", EmptyJson, ""),
      ApiSpec("slow", "object", "json", TRUE, TRUE, TRUE, FALSE, OwnerJson,
              "hang", OwnerJson, "") }

Settles(c) ==
    \/ ParserSettles(c)
    \/ ImportYamlSettles(c)
    \/ ImportFallbackSettles(c)
    \/ ResolverSettles(c)

InitParse == ParserIdle /\ GraphEmpty /\ PagesIdle
NextParse ==
    \/ \E d \in ParseDocs \cup {NoSpec} : SelectSpec(d, MaxSelections)
    \/ \E c \in 1..Len(cycles) : ParserSettles(c)
    \/ \E c \in 1..Len(cycles) : ImportYamlSettles(c)
    \/ \E c \in 1..Len(cycles) : ImportFallbackSettles(c)
    \/ \E c \in 1..Len(cycles) : ResolverSettles(c)
SpecParse == InitParse /\ [][NextParse]_vars

\* Every promise that settles is handled: a continuation that can run does
FairParse == \A c \in 1..MaxSelections : WF_vars(c \in 1..Len(cycles) /\ Settles(c))
SpecParseFair == SpecParse /\ FairParse

\* The documents whose endpoints are extracted: an object content that the
\* resolver returns as it is, with every paths map over ExtractItems
PlainOperation == Operation("", "array", "map", <<ResponseEntry("200")>>)
BadParametersOperation == Operation("", "object", "map", <<ResponseEntry("200")>>)
NullResponsesOperation == Operation("", "absent", "null", <<>>)

ExtractItems ==
    { PathObject([m \in {"get"} |-> PlainOperation]),
      PathObject([m \in {"get", "head"} |-> PlainOperation]),
      PathObject([m \in {"get", "post"} |->
                    IF m = "get" THEN BadParametersOperation ELSE PlainOperation]),
      PathObject([m \in {"delete", "put"} |->
                    IF m = "put" THEN NullResponsesOperation ELSE PlainOperation]),
      PathObject([m \in {"GET"} |-> PlainOperation]),
      PathString,
      PathNull }

ExtractJson(paths) == JsonDoc("object", "3.0.3", "", Info("Extract", "1"), "map", paths)

ExtractDocs ==
    { ApiSpec("extract", "object", "json", TRUE, TRUE, TRUE, FALSE,
              ExtractJson(paths), "resolve", ExtractJson(paths), "") :
        paths \in DocsOver(ExtractItems, MaxPaths) }

\* One document is selected and its cycle runs alone
InitExtract == ParserIdle /\ GraphEmpty /\ PagesIdle
NextExtract ==
    \/ \E d \in ExtractDocs : SelectSpec(d, 1)
    \/ \E c \in 1..Len(cycles) : ResolverSettles(c)
SpecExtract == InitExtract /\ [][NextExtract]_vars

\* The documents whose responses are mapped: one GET operation whose
\* responses map has one or two entries with values of ResponseValues
SchemaObject == JObject(<<Entry("type", JString("object"))>>)
SchemaText == JObject(<<Entry("type", JString("string"))>>)

MediaType(schema) == JObject(<<Entry("schema", schema)>>)

WithContent(content) ==
    JObject(<<Entry("description", JString("ok")), Entry("content", content)>>)

ResponseValues ==
    { JString("gone"),
      JNull,
      JObject(<<Entry("description", JString("ok"))>>),
      WithContent(JObject(<<>>)),
      WithContent(JObject(<<Entry("application/json", MediaType(SchemaObject))>>)),
      WithContent(JObject(<<Entry("text/plain", MediaType(SchemaText)),
                            Entry("application/json", MediaType(SchemaObject))>>)),
      WithContent(JObject(<<Entry("application/vnd.api+json", MediaType(SchemaObject))>>)),
      WithContent(JObject(<<Entry("text/plain", JObject(<<>>))>>)) }

ResponseMaps ==
    { <<Response("200", v)>> : v \in ResponseValues }
        \cup { <<Response("200", v), Response("404", w)>> :
                 v \in ResponseValues, w \in ResponseValues }

MapPaths(responses) ==
    <<[path |-> "/r", item |-> GetOnly(Operation("", "absent", "map", responses))]>>

MapDocs ==
    { ApiSpec("responses", "object", "json", TRUE, TRUE, TRUE, FALSE,
              ExtractJson(MapPaths(rs)), "resolve", ExtractJson(MapPaths(rs)), "") :
        rs \in ResponseMaps }

\* One document is selected and its cycle runs alone
InitMap == ParserIdle /\ GraphEmpty /\ PagesIdle
NextMap ==
    \/ \E d \in MapDocs : SelectSpec(d, 1)
    \/ \E c \in 1..Len(cycles) : ResolverSettles(c)
SpecMap == InitMap /\ [][NextMap]_vars


\* The documents whose resolution is rejected: every message made of the
\* fragments a resolver failure is classified by, for a document the
\* validator has errors for and one it has only a warning for
RejectMessages ==
    { ref \o type \o prop \o sch \o obj :
        ref \in {"", "Could not resolve reference ",
                 "Could not resolve reference $ref:#/defs/{Pet} "},
        type \in {"", "a.b is not of a type(s) string,null "},
        prop \in {"", "missing required property 'name' "},
        sch \in {"", "schema invalid ", "schema x must match {\"secret\":1} "},
        obj \in {"", "at {\"k\":1} in {a{b}c}"} }

EmptyPathsJson == JsonDoc("object", "3.0.0", "", Info("Empty", "1"), "absent", <<>>)

RejectDocs ==
    { ApiSpec("rejected", "object", "json", TRUE, TRUE, TRUE, FALSE, json,
              "reject", json, message) :
        json \in {DraftJson, EmptyPathsJson}, message \in RejectMessages }

\* One document is selected and its resolution is rejected
InitReject == ParserIdle /\ GraphEmpty /\ PagesIdle
NextReject ==
    \/ \E d \in RejectDocs : SelectSpec(d, 1)
    \/ \E c \in 1..Len(cycles) : ResolverSettles(c)
SpecReject == InitReject /\ [][NextReject]_vars

\* The documents that are validated: every combination of the version
\* fields, the info object and the paths map, as object content that the
\* resolver returns as it is, and the string content "null"
ValidatedPaths ==
    { <<>>,
      <<[path |-> "/a", item |-> GetOnly(PlainOperation)]>>,
      <<[path |-> "/a", item |-> PathString]>>,
      <<[path |-> "/a", item |-> PathNull]>>,
      <<[path |-> "/a", item |-> GetOnly(PlainOperation)], [path |-> "/b", item |-> PathNull]>> }

ValidatedJson ==
    { JsonDoc("object", openapi, swagger, info, "map", paths) :
        openapi \in {"", "3.0.0", "3.0.9"}, swagger \in {"", "2.0", "1.2"},
        info \in {NoInfo, Info("", ""), Info("T", ""), Info("", "1"), Info("T", "1")},
        paths \in ValidatedPaths }
    \cup
    { JsonDoc("object", openapi, swagger, info, "absent", <<>>) :
        openapi \in {"", "3.0.0", "3.0.9"}, swagger \in {"", "2.0", "1.2"},
        info \in {NoInfo, Info("T", "1")} }

ValidateDocs ==
    { ApiSpec("validated", "object", "json", TRUE, TRUE, TRUE, FALSE, json,
              "resolve", json, "") : json \in ValidatedJson }
    \cup { ApiSpec("null", "string", "json", FALSE, TRUE, TRUE, FALSE, EmptyJson,
                   "resolve", EmptyJson, "") }

\* One document is selected and its cycle runs alone
InitValidate == ParserIdle /\ GraphEmpty /\ PagesIdle
NextValidate ==
    \/ \E d \in ValidateDocs : SelectSpec(d, 1)
    \/ \E c \in 1..Len(cycles) : ParserSettles(c)
    \/ \E c \in 1..Len(cycles) : ResolverSettles(c)
SpecValidate == InitValidate /\ [][NextValidate]_vars

\* The documents that are normalized: string content of either declared
\* format, that the parser, JSON.parse and jsyaml.load each read or fail to
\* read, as a document with paths, one without, or the value null. Content that starts
\* with openapi: or swagger: is not JSON, and the parser reads only content
\* that is JSON or YAML.
NormalizeDocs ==
    { ApiSpec("text", "string", format, parserOk, jsonOk, yamlOk, yamlPrefix, json,
              "resolve", json, "") :
        format \in {"json", "yaml"}, parserOk \in BOOLEAN, jsonOk \in BOOLEAN,
        yamlOk \in BOOLEAN, yamlPrefix \in BOOLEAN,
        json \in {PetJson, DraftJson, EmptyJson} }

ReadableDocs ==
    { d \in NormalizeDocs :
        /\ d.yamlPrefix => ~d.jsonOk
        /\ d.parserOk => (d.jsonOk \/ d.yamlOk) }

\* One document is selected and its cycle runs alone
InitNormalize == ParserIdle /\ GraphEmpty /\ PagesIdle
NextNormalize ==
    \/ \E d \in ReadableDocs : SelectSpec(d, 1)
    \/ \E c \in 1..Len(cycles) : ParserSettles(c)
    \/ \E c \in 1..Len(cycles) : ImportYamlSettles(c)
    \/ \E c \in 1..Len(cycles) : ImportFallbackSettles(c)
    \/ \E c \in 1..Len(cycles) : ResolverSettles(c)
SpecNormalize == InitNormalize /\ [][NextNormalize]_vars

\* The effect of lines 568-639 run for the endpoints of the hook and the
\* api name: the graph it sets
RebuildGraph(name) ==
    [nodes |-> BuildNodes(graphEndpoints, name), edges |-> BuildEdges(graphEndpoints)]

\* The names the apiName argument takes
ApiNames == {"API", "Pets"}

\* The apiName argument changes while the endpoints stay: the effect runs
\* again (its dependencies are endpoints, apiName and apiVersion)
PropsChange(name) ==
    /\ name # apiName
    /\ apiName' = name
    /\ nodes' = RebuildGraph(name).nodes
    /\ edges' = RebuildGraph(name).edges
    /\ handlerNodes' = RebuildGraph(name).nodes
    /\ UNCHANGED <<graphEndpoints, toggles>>
    /\ UNCHANGED parserVars
    /\ UNCHANGED pageVars

\* Toggles in sequence and rebuilds of the graph of one document
InitRebuild == GraphBuilt(CleanDocs) /\ ParserIdle /\ PagesIdle
NextRebuild ==
    \/ \E nodeId \in ToggleIds : ToggleRendered(nodeId)
    \/ \E name \in ApiNames : PropsChange(name)
SpecRebuild == InitRebuild /\ [][NextRebuild]_vars

----------------------------------------------------------------------------
(* The documents of the viewer page and its actions *)

StringSchema == JObject(<<Entry("type", JString("string"))>>)

RefSchema(ref) == JObject(<<Entry("$ref", ref)>>)

ObjectSchema(properties, required) ==
    JObject(<<Entry("type", JString("object")), Entry("properties", JObject(properties)),
              Entry("required", required)>>)

ArraySchema(items) == JObject(<<Entry("type", JString("array")), Entry("items", items)>>)

PetRef == JString("#/components/schemas/Pet")

\* The schemas of the documents: well-formed ones, ones with a malformed
\* fragment, and ones whose property names are blank or differ only in
\* separator characters
SchemaPool ==
    { ObjectSchema(<<Entry("id", StringSchema), Entry("owner", RefSchema(PetRef)),
                     Entry("tags", ArraySchema(StringSchema))>>, JArray(<<JString("id")>>)),
      ObjectSchema(<<Entry("owner", ObjectSchema(<<Entry("name", StringSchema)>>,
                                                 JArray(<<>>)))>>, JArray(<<>>)),
      ArraySchema(RefSchema(PetRef)),
      RefSchema(PetRef),
      ObjectSchema(<<Entry("id", StringSchema), Entry("nick", JNull),
                     Entry("name", StringSchema)>>, JArray(<<>>)),
      ObjectSchema(<<Entry("id", JString("string")), Entry("name", StringSchema)>>,
                   JArray(<<>>)),
      ObjectSchema(<<Entry("id", StringSchema)>>, JBool(TRUE)),
      ObjectSchema(<<Entry("id", StringSchema), Entry("owner", RefSchema(JNumber("5")))>>,
                   JArray(<<>>)),
      RefSchema(JNumber("5")),
      ObjectSchema(<<Entry("", StringSchema), Entry("id", StringSchema)>>, JArray(<<>>)),
      ObjectSchema(<<Entry("", StringSchema), Entry(" ", RefSchema(PetRef))>>, JArray(<<>>)),
      ObjectSchema(<<Entry("a.b", StringSchema), Entry("a_b", StringSchema)>>, JArray(<<>>)),
      ObjectSchema(<<Entry("x", RefSchema(PetRef)),
                     Entry("x-ref", ObjectSchema(<<Entry("y", StringSchema)>>, JArray(<<>>)))>>,
                   JArray(<<>>)) }

\* {content: {"application/json": {schema}}}
JsonBody(schema) ==
    JObject(<<Entry("content",
                    JObject(<<Entry("application/json", JObject(<<Entry("schema", schema)>>))>>))>>)

Responding(responses) == JObject(<<Entry("responses", JObject(responses))>>)

PathsDocument(paths) ==
    JObject(<<Entry("info", JObject(<<Entry("title", JString("Pets"))>>)),
              Entry("paths", JObject(paths))>>)

\* GET /pets answers 200 with schema
SchemaDocument(schema) ==
    PathsDocument(<<Entry("/pets",
        JObject(<<Entry("get", Responding(<<Entry("200", JsonBody(schema))>>))>>))>>)

OwnersItem == JObject(<<Entry("get", Responding(<<Entry("200", JsonBody(StringSchema))>>))>>)

\* Documents with a malformed or an unusual fragment above the schemas
PathDocuments ==
    { PathsDocument(<<Entry("/pets", JNull), Entry("/owners", OwnersItem)>>),
      PathsDocument(<<Entry("/owners", OwnersItem),
                      Entry("/pets", JObject(<<Entry("get", JNull)>>))>>),
      PathsDocument(<<Entry("/owners",
          JObject(<<Entry("get", Responding(<<Entry("200", JNull),
                                              Entry("404", JsonBody(StringSchema))>>))>>))>>),
      PathsDocument(<<Entry("/owners",
          JObject(<<Entry("post",
              JObject(<<Entry("requestBody", JsonBody(RefSchema(PetRef))),
                        Entry("parameters",
                              JArray(<<JObject(<<Entry("name", JString("id")),
                                                 Entry("in", JString("path")),
                                                 Entry("schema", StringSchema)>>)>>))>>))>>))>>),
      PathsDocument(<<Entry("/owners",
          JObject(<<Entry("get",
              JObject(<<Entry("parameters", JArray(<<JNull>>))>>))>>))>>),
      PathsDocument(<<Entry("/a/b", OwnersItem), Entry("/a.b", OwnersItem)>>),
      JObject(<<Entry("info", JNull)>>) }

ViewerDocuments == { SchemaDocument(schema) : schema \in SchemaPool } \cup PathDocuments

\* The texts that are imported: a document, and a text YAML.parse rejects
ImportedContents ==
    { Content(TRUE, PathsDocument(<<Entry("/owners", OwnersItem)>>)),
      Content(FALSE, JNull) }

\* The page after its first effect (lines 463-473) read one stored document
ViewerMounted ==
    \E document \in ViewerDocuments :
        viewerPage = [InitialViewerPage EXCEPT
                         !.specs = <<SpecDocument("spec-0", Content(TRUE, document))>>]

\* A click on the stored document at index i: loadSpec(spec)
LoadSpec(i) ==
    /\ Len(viewerPage.loads) < MaxLoads
    /\ viewerPage' = StartLoad(viewerPage, viewerPage.specs[i])
    /\ UNCHANGED <<editorPage, storageHook, localStorage>>
    /\ UNCHANGED graphVars
    /\ UNCHANGED parserVars

\* await parseOpenAPISpec(spec.content) settles for the load at index l
LoadSettles(l) ==
    /\ viewerPage.loads[l].pc = "parse"
    /\ \E rands \in RandomDraws :
          viewerPage' = FinishLoad(viewerPage, l,
                                   parseOpenAPISpec(viewerPage.loads[l].spec.content, rands))
    /\ UNCHANGED <<editorPage, storageHook, localStorage>>
    /\ UNCHANGED graphVars
    /\ UNCHANGED parserVars

\* A click on the delete button of the stored document at index i
DeleteSpec(i) ==
    /\ viewerPage' = deleteSpec(viewerPage, viewerPage.specs[i].id)
    /\ UNCHANGED <<editorPage, storageHook, localStorage>>
    /\ UNCHANGED graphVars
    /\ UNCHANGED parserVars

\* A click on the import button
ImportSpec(content) ==
    /\ Len(viewerPage.loads) < MaxLoads
    /\ viewerPage' = importSpec(viewerPage, content)
    /\ UNCHANGED <<editorPage, storageHook, localStorage>>
    /\ UNCHANGED graphVars
    /\ UNCHANGED parserVars

\* The viewer page: loads, deletions and imports in any order
InitViewer ==
    /\ ParserIdle /\ GraphEmpty
    /\ ViewerMounted
    /\ editorPage = InitialEditorPage
    /\ storageHook = InitialStorageHook
    /\ localStorage = NothingStored
NextViewer ==
    \/ \E i \in 1..Len(viewerPage.specs) : LoadSpec(i)
    \/ \E l \in 1..Len(viewerPage.loads) : LoadSettles(l)
    \/ \E i \in 1..Len(viewerPage.specs) : DeleteSpec(i)
    \/ \E content \in ImportedContents : ImportSpec(content)
SpecViewer == InitViewer /\ [][NextViewer]_vars

----------------------------------------------------------------------------
(* The editor page and the storage hook as actions *)

EditorTexts == {" ", "openapi: 3.0.0", "a: [b"}

StoredSpecs == { SavedSpec("spec-0", "openapi: 3.0.0", FALSE),
                 SavedSpec("spec-8", "openapi: 3.1.0", FALSE),
                 SavedSpec("spec-9", "swagger: 2.0", TRUE) }

\* The lists of at most MaxStored stored specs
SpecLists == UNION { [1..n -> StoredSpecs] : n \in 0..MaxStored }

\* The lists the editor page finds stored
EditorLists ==
    { <<>>, <<SavedSpec("spec-0", "openapi: 3.0.0", FALSE)>>,
      <<SavedSpec("spec-0", "openapi: 3.0.0", FALSE), SavedSpec("spec-9", "swagger: 2.0", TRUE)>> }

\* The page after its first effect read the stored item
EditorMounted ==
    \E list \in EditorLists :
        /\ localStorage = (IF list = <<>> THEN NothingStored ELSE Stringify(list))
        /\ editorPage = EditorLoaded(InitialEditorPage, localStorage)

OtherThanEditor == <<viewerPage, storageHook>>

HandleEditorChange(value) ==
    /\ editorPage' = handleEditorChange(editorPage, value)
    /\ UNCHANGED <<localStorage, OtherThanEditor, graphVars, parserVars>>

\* A click on Save; setItem returns or throws
SaveSpec(writes) ==
    /\ editorPage.now <= MaxSaved
    /\ editorPage' = saveSpec(editorPage, localStorage, writes).page
    /\ localStorage' = saveSpec(editorPage, localStorage, writes).item
    /\ UNCHANGED <<OtherThanEditor, graphVars, parserVars>>

HandleDelete(i) ==
    /\ editorPage.specToDelete = "null"
    /\ editorPage' = handleDelete(editorPage, editorPage.specs[i].id)
    /\ UNCHANGED <<localStorage, OtherThanEditor, graphVars, parserVars>>

ConfirmDelete(confirmed) ==
    /\ editorPage.specToDelete # "null"
    /\ editorPage' = confirmDelete(editorPage, confirmed)
    /\ UNCHANGED <<localStorage, OtherThanEditor, graphVars, parserVars>>

HandleImport(importValue) ==
    /\ editorPage.now <= MaxSaved
    /\ editorPage' = handleImport(editorPage, importValue)
    /\ UNCHANGED <<localStorage, OtherThanEditor, graphVars, parserVars>>

ToggleFavorite(i) ==
    /\ editorPage' = toggleFavorite(editorPage, editorPage.specs[i].id)
    /\ UNCHANGED <<localStorage, OtherThanEditor, graphVars, parserVars>>

InitEditor ==
    /\ ParserIdle /\ GraphEmpty
    /\ EditorMounted
    /\ viewerPage = InitialViewerPage
    /\ storageHook = InitialStorageHook
NextEditor ==
    \/ \E value \in EditorTexts : HandleEditorChange(value)
    \/ \E writes \in BOOLEAN : SaveSpec(writes)
    \/ \E i \in 1..Len(editorPage.specs) : HandleDelete(i)
    \/ \E confirmed \in BOOLEAN : ConfirmDelete(confirmed)
    \/ \E importValue \in EditorTexts : HandleImport(importValue)
    \/ \E i \in 1..Len(editorPage.specs) : ToggleFavorite(i)
SpecEditor == InitEditor /\ [][NextEditor]_vars

\* The items the hook may find under its key
StoredItems ==
    { NothingStored, StoredItem("empty", <<>>), StoredItem("invalid", <<>>),
      StoredItem("scalar", <<>>) }
        \cup { StoredItem("object", <<saved>>) : saved \in StoredSpecs }
        \cup { Stringify(list) : list \in SpecLists }

OtherThanHook == <<viewerPage, editorPage>>

\* The effect of the hook runs after its first render
LoadEffect(readable) ==
    /\ storageHook = InitialStorageHook
    /\ storageHook' = LoadStored(localStorage, readable)
    /\ UNCHANGED <<localStorage, OtherThanHook, graphVars, parserVars>>

\* A call of the setSpecs the hook returns
SaveSpecs(newSpecs, writes) ==
    /\ ~storageHook.isLoading
    /\ storageHook' = saveSpecs(storageHook, localStorage, newSpecs, writes).hook
    /\ localStorage' = saveSpecs(storageHook, localStorage, newSpecs, writes).item
    /\ UNCHANGED <<OtherThanHook, graphVars, parserVars>>

\* Another user of the key, such as saveSpec of the editor page, stores a list
StorageWritten(list) ==
    /\ localStorage # Stringify(list)
    /\ localStorage' = Stringify(list)
    /\ UNCHANGED <<storageHook, OtherThanHook, graphVars, parserVars>>

InitStorage ==
    /\ ParserIdle /\ GraphEmpty
    /\ localStorage \in StoredItems
    /\ storageHook = InitialStorageHook
    /\ viewerPage = InitialViewerPage
    /\ editorPage = InitialEditorPage
NextStorage ==
    \/ \E readable \in BOOLEAN : LoadEffect(readable)
    \/ \E newSpecs \in SpecLists, writes \in BOOLEAN : SaveSpecs(newSpecs, writes)
    \/ \E list \in SpecLists : StorageWritten(list)
SpecStorage == InitStorage /\ [][NextStorage]_vars

----------------------------------------------------------------------------
(* Properties of the expansion state machine *)

SetOf(seq) == { seq[i] : i \in 1..Len(seq) }

IdsOf(seq) == { seq[i].id : i \in 1..Len(seq) }

Graph == [nodes |-> nodes, edges |-> edges]

\* A toggle handled by a handler that sees the nodes of g
ToggleOn(g, nodeId) == toggleNodeExpansion(g.nodes, g, nodeId)

EndpointNodeIds == { nodes[i].id : i \in { k \in 1..Len(nodes) : nodes[k].type = "endpoint" } }

\* C1: from every graph state reached by toggles in sequence, and for every
\* endpoint node id, toggling the node twice in sequence leaves the set of
\* nodes and the set of edges as they were before the first toggle.
C1_ToggleTwiceRestores ==
    \A id \in EndpointNodeIds :
        LET g2 == ToggleOn(ToggleOn(Graph, id), id)
        IN SetOf(g2.nodes) = SetOf(nodes) /\ SetOf(g2.edges) = SetOf(edges)

\* C2: expanding a collapsed endpoint node that has n responses adds exactly
\* n response nodes and n edges from the endpoint to them and nothing else,
\* and collapsing it afterwards removes exactly those nodes and edges: every
\* other node and edge, of whatever endpoint, is still there.
C2_ExpandCollapseFrame ==
    \A k \in 1..Len(nodes) :
        (nodes[k].type = "endpoint" /\ ~nodes[k].expanded
            /\ FindIndex(nodes, nodes[k].id) = k) =>
            LET id == nodes[k].id
                n == Len(nodes[k].responses)
                g1 == ToggleOn(Graph, id)
                g2 == ToggleOn(g1, id)
                addedNodes == SubSeq(g1.nodes, Len(nodes) + 1, Len(g1.nodes))
                addedEdges == SubSeq(g1.edges, Len(edges) + 1, Len(g1.edges))
            IN /\ Len(g1.nodes) = Len(nodes) + n
               /\ Len(g1.edges) = Len(edges) + n
               /\ IdsOf(SubSeq(g1.nodes, 1, Len(nodes))) = IdsOf(nodes)
               /\ SubSeq(g1.edges, 1, Len(edges)) = edges
               /\ \A i \in 1..n :
                    /\ addedNodes[i].type = "response"
                    /\ addedEdges[i].source = id
                    /\ addedEdges[i].target = addedNodes[i].id
               /\ IdsOf(g2.nodes) = IdsOf(g1.nodes) \ IdsOf(addedNodes)
               /\ IdsOf(g2.edges) = IdsOf(g1.edges) \ IdsOf(addedEdges)
               /\ IdsOf(nodes) \subseteq IdsOf(g2.nodes)
               /\ IdsOf(edges) \subseteq IdsOf(g2.edges)

\* The response nodes and edges of the endpoint node nd are all present
ResponsesPresent(nd) ==
    \A i \in 1..Len(nd.responses) :
        LET rid == ResponseNodeId(ReplaceFirst(nd.id, "endpoint-", ""), nd.responses[i])
        IN /\ rid \in IdsOf(nodes)
           /\ \E j \in 1..Len(edges) : edges[j].source = nd.id /\ edges[j].target = rid

\* No response node or edge of the endpoint node nd is present
ResponsesAbsent(nd) ==
    \A i \in 1..Len(nd.responses) :
        LET rid == ResponseNodeId(ReplaceFirst(nd.id, "endpoint-", ""), nd.responses[i])
        IN /\ rid \notin IdsOf(nodes)
           /\ ~\E j \in 1..Len(edges) : edges[j].source = nd.id /\ edges[j].target = rid

\* C3: in every state reached from the initial build by toggles in sequence,
\* the response nodes and edges of an endpoint are present if the endpoint
\* node is marked expanded and absent if it is not.
C3_ResponsesIffExpanded ==
    \A k \in 1..Len(nodes) :
        nodes[k].type = "endpoint" =>
            IF nodes[k].expanded THEN ResponsesPresent(nodes[k])
            ELSE ResponsesAbsent(nodes[k])

\* C4: in every graph instance, the initial build and every state reached
\* from it by toggles, no two nodes have the same id.
C4_NodeIdsUnique ==
    \A i, j \in 1..Len(nodes) : i # j => nodes[i].id # nodes[j].id

\* C6: whatever the order of clicks and re-renders, no response node and no
\* edge is there twice, and the response nodes of an endpoint are present
\* exactly when the endpoint node is marked expanded.
C6_RapidTogglesSafe ==
    /\ \A i, j \in 1..Len(nodes) :
          (i # j /\ nodes[i].type = "response") => nodes[i].id # nodes[j].id
    /\ \A i, j \in 1..Len(edges) : i # j => edges[i].id # edges[j].id
    /\ C3_ResponsesIffExpanded

\* C7: from every graph state and for every two distinct endpoint nodes a
\* and b, toggling a then b gives the same set of nodes and the same set of
\* edges as toggling b then a.
C7_TogglesCommute ==
    \A a, b \in EndpointNodeIds :
        a # b =>
            LET ab == ToggleOn(ToggleOn(Graph, a), b)
                ba == ToggleOn(ToggleOn(Graph, b), a)
            IN SetOf(ab.nodes) = SetOf(ba.nodes) /\ SetOf(ab.edges) = SetOf(ba.edges)

----------------------------------------------------------------------------
(* Properties of the parse cycles *)

AllDone == \A c \in 1..Len(cycles) : cycles[c].pc = "done"

\* The hook state a cycle for d ends with when it runs from step with no
\* other cycle in flight (the state it is suspended in when d's resolver
\* hangs)
RECURSIVE RunAlone(_, _)
RunAlone(step, d) ==
    IF step.pc = "parse" THEN RunAlone(AfterParser(step.hook, d), d)
    ELSE IF step.pc = "importYaml" THEN RunAlone(AfterImportYaml(step.hook, d), d)
    ELSE IF step.pc = "importFallback"
        THEN RunAlone(AfterImportFallback(step.hook, d, step.thrown), d)
    ELSE IF step.pc = "resolve" /\ d.resolver # "hang"
        THEN RunAlone(AfterResolver(step.hook, d), d)
    ELSE step.hook

\* What a cycle for d produces on its own
ProducedFor(d) == RunAlone(StartCycle(EffectStart(InitialHook), d), d)

\* C5: once every cycle that was started has completed, in whatever order,
\* the endpoints, the diagnostics and the version label are those produced
\* for the selected document, and with no document selected the endpoints
\* and the diagnostics are empty.
C5_LatestSelectionWins ==
    AllDone =>
        IF spec = NoSpec THEN endpoints = <<>> /\ validationErrors = <<>>
        ELSE /\ endpoints = ProducedFor(spec).endpoints
             /\ validationErrors = ProducedFor(spec).validationErrors
             /\ ProducedFor(spec).specVersion # ""
                    => specVersion = ProducedFor(spec).specVersion

\* C8: every parse cycle eventually finishes: whenever isLoading is true it
\* is eventually false, also when the resolver never returns.
C8_CycleEventuallyFinishes == isLoading ~> ~isLoading

\* The operations the validator recognizes: the (path, key) pairs whose key
\* is one of get, post, put, delete, patch, options, head
RecognizedOperations(paths) ==
    { <<i, key>> \in (1..Len(paths)) \X (ValidatorMethods \cup {"GET"}) :
        /\ paths[i].item.kind = "object"
        /\ key \in DOMAIN paths[i].item.ops
        /\ toLowerCase(key) \in ValidatorMethods }

\* The operations the extractor maps, and those among them whose mapping
\* throws
ExtractorMethodSet == { ExtractorMethods[j] : j \in 1..Len(ExtractorMethods) }

MappedOperations(paths) ==
    { <<i, m>> \in (1..Len(paths)) \X ExtractorMethodSet : HasOperation(paths[i].item, m) }

FailedOperations(paths) ==
    { o \in MappedOperations(paths) : MapperThrows(paths[o[1]].item.ops[o[2]]) # "" }

\* Every path item is an object and every operation maps without an error
WellFormed(paths) ==
    /\ \A i \in 1..Len(paths) : paths[i].item.kind = "object"
    /\ \A i \in 1..Len(paths) : \A key \in DOMAIN paths[i].item.ops :
          MapperThrows(paths[i].item.ops[key]) = ""
    /\ RecognizedOperations(paths) # {}

\* C9: when the cycle of a well-formed resolved document with at least one
\* path and one operation is done, the number of endpoints is the number of
\* method keys the validator recognizes over all path items.
C9_EndpointCount ==
    \A c \in 1..Len(cycles) :
        (cycles[c].pc = "done" /\ WellFormed(cycles[c].doc.resolved.paths)) =>
            Len(endpoints) = Cardinality(RecognizedOperations(cycles[c].doc.resolved.paths))

\* The place of an operation in document order
PathIndex(paths, path) == CHOOSE i \in 1..Len(paths) : paths[i].path = path

MethodIndex(m) == CHOOSE j \in 1..Len(ExtractorMethods) : toUpperCase(ExtractorMethods[j]) = m

Rank(paths, endpoint) ==
    PathIndex(paths, endpoint.path) * (Len(ExtractorMethods) + 1) + MethodIndex(endpoint.method)

\* C10: when the resolver has returned a document and the cycle is done, the
\* endpoints are those of the operations whose mapping did not fail, in
\* document order, every failed operation has exactly one warning with path
\* paths.<path>.<method>, and the top-level error is not set.
C10_PartialFailureTolerated ==
    \A c \in 1..Len(cycles) :
        (cycles[c].pc = "done" /\ ValidatorThrows(cycles[c].doc.json) = "") =>
            LET paths == cycles[c].doc.resolved.paths
                good == MappedOperations(paths) \ FailedOperations(paths)
            IN /\ Len(endpoints) = Cardinality(good)
               /\ { <<endpoints[j].path, endpoints[j].method>> : j \in 1..Len(endpoints) }
                    = { <<paths[o[1]].path, toUpperCase(o[2])>> : o \in good }
               /\ \A j, k \in 1..Len(endpoints) :
                    j < k => Rank(paths, endpoints[j]) < Rank(paths, endpoints[k])
               /\ \A o \in FailedOperations(paths) :
                    Cardinality({ j \in 1..Len(validationErrors) :
                        /\ validationErrors[j].path = "paths." \o paths[o[1]].path \o "." \o o[2]
                        /\ validationErrors[j].severity = "warning" }) = 1
               /\ error = "null"

----------------------------------------------------------------------------
(* Properties of the response mapping *)

\* The content the mapping is to give for a response value, as a set of
\* admissible values: undefined for a string and for an object without a
\* content field, {type, schema} of the first media type for a non-empty
\* content map, anything otherwise
ExpectedContents(value, content) ==
    IF value.kind = "string" THEN {JUndefined}
    ELSE IF value.kind = "object" /\ ~HasKey(value, "content") THEN {JUndefined}
    ELSE IF value.kind = "object" /\ Prop(value, "content").kind = "object"
            /\ Len(Prop(value, "content").entries) > 0 THEN
        LET media == Prop(value, "content").entries[1]
            schema == Prop(media.value, "schema")
        IN { JObject(<<Entry("type", JString(media.key)),
                       Entry("schema", IF schema.kind = "undefined" THEN k ELSE schema)>>) :
                k \in {JNull, JUndefined} }
    ELSE {content}

\* C11: when the cycle of a document with one operation is done, the
\* endpoint has one response entry per key of the responses map, in order;
\* a string value gives the string as description and content undefined, an
\* object without content gives content undefined, and an object with a
\* non-empty content map gives {type, schema} of its first media type,
\* whatever the media type is called.
C11_ResponseMapping ==
    \A c \in 1..Len(cycles) :
        cycles[c].pc = "done" =>
            LET rs == cycles[c].doc.resolved.paths[1].item.ops["get"].responses
            IN /\ Len(endpoints) = 1
               /\ Len(endpoints[1].responses) = Len(rs)
               /\ \A i \in 1..Len(rs) :
                    LET r == endpoints[1].responses[i] IN
                    /\ r.statusCode = rs[i].statusCode
                    /\ rs[i].value.kind = "string" => r.description = rs[i].value
                    /\ r.content \in ExpectedContents(rs[i].value, r.content)

----------------------------------------------------------------------------
(* Properties of the resolver failure *)

\* The cycle c has ended after its resolver rejected
Rejected(c) == cycles[c].pc = "done" /\ cycles[c].doc.resolver = "reject"

\* The category the error string reports
ReportedCategory(e) ==
    IF StartsWith(e, "Invalid reference in specification") THEN "reference-error"
    ELSE IF StartsWith(e, "Type error") THEN "type-error"
    ELSE IF StartsWith(e, "Missing required property") THEN "missing-required-property"
    ELSE IF StartsWith(e, "Schema validation failed") THEN "schema-error"
    ELSE "generic"

\* The category of the first matching rule in the order reference, type,
\* required property, schema
FirstMatchCategory(message) ==
    IF Includes(message, "reference") THEN "reference-error"
    ELSE IF Includes(message, "is not of a type") THEN "type-error"
    ELSE IF Includes(message, "required property") THEN "missing-required-property"
    ELSE IF Includes(message, "schema") THEN "schema-error"
    ELSE "generic"

\* C12: when a cycle has ended after its resolver rejected, the error string
\* reports the category of the first rule the message matches, in the order
\* reference, "is not of a type", "required property", schema, else generic;
\* a message with both "reference" and "schema" is a reference error.
C12_ClassificationOrder ==
    \A c \in 1..Len(cycles) :
        Rejected(c) =>
            ReportedCategory(error) = FirstMatchCategory(cycles[c].doc.rejectMessage)

\* s has a match of \{[^{}]*\} that is not the placeholder {...}
HasObjectLiteral(s) ==
    \E i \in 1..Len(s) :
        /\ Slice(s, i, i) = "{"
        /\ LET e == RunEndNot(s, i + 1, {"{", "}"})
           IN Slice(s, e + 1, e + 1) = "}" /\ Slice(s, i, e + 1) # "{...}"

\* C13: when a cycle has ended after its resolver rejected, whatever the
\* message and the branch it was classified by, neither the error string nor
\* the message of any diagnostic contains a brace-delimited object literal
\* other than the placeholder {...}.
C13_ObjectLiteralsRedacted ==
    \A c \in 1..Len(cycles) :
        Rejected(c) =>
            /\ ~HasObjectLiteral(error)
            /\ \A i \in 1..Len(validationErrors) :
                  ~HasObjectLiteral(validationErrors[i].message)

\* C14: when a cycle has ended after its resolver rejected, the endpoint
\* list is empty, the error string is set and not empty, isLoading is false,
\* and every diagnostic the validator returned for the document is among the
\* diagnostics.
C14_RejectEndsCycle ==
    \A c \in 1..Len(cycles) :
        Rejected(c) =>
            /\ endpoints = <<>>
            /\ error \notin {"null", ""}
            /\ ~isLoading
            /\ \A i \in 1..Len(validateSpecFormat(cycles[c].doc.json)) :
                  validateSpecFormat(cycles[c].doc.json)[i] \in SetOf(validationErrors)

----------------------------------------------------------------------------
(* Properties of the validator *)

\* What a call of validateSpecFormat gives back: the list it returns, and
\* nothing when it throws
Returned(doc) == IF ValidatorThrows(doc) = "" THEN validateSpecFormat(doc) ELSE <<>>

\* C15: when a cycle is done, every diagnostic validateSpecFormat returned
\* for its document, warning or error, is among the diagnostics of the hook.
C15_ValidatorDiagnosticsKept ==
    \A c \in 1..Len(cycles) :
        cycles[c].pc = "done" =>
            \A i \in 1..Len(Returned(cycles[c].doc.json)) :
                Returned(cycles[c].doc.json)[i] \in SetOf(validationErrors)

\* C16: for the document of every cycle, validateSpecFormat returns and
\* does not throw, also when a path item is null or not an object; for a
\* falsy document it returns exactly one diagnostic, an error.
C16_ValidatorNeverThrows ==
    \A c \in 1..Len(cycles) :
        LET doc == cycles[c].doc.json IN
        /\ ValidatorThrows(doc) = ""
        /\ doc.kind = "null" =>
              /\ Len(validateSpecFormat(doc)) = 1
              /\ validateSpecFormat(doc)[1].severity = "error"

\* doc has a warning whose message starts with prefix
Warned(doc, prefix) ==
    \E i \in 1..Len(Returned(doc)) :
        /\ Returned(doc)[i].severity = "warning"
        /\ StartsWith(Returned(doc)[i].message, prefix)

\* C17: for every document that is not falsy, the validator returns an
\* OpenAPI-version warning exactly when openapi is present and not one of
\* the supported versions, and a Swagger-version warning exactly when
\* swagger is present and not "2.0", each according to its own field.
C17_VersionWarnings ==
    \A c \in 1..Len(cycles) :
        LET doc == cycles[c].doc.json IN
        doc.kind # "null" =>
            /\ Warned(doc, "OpenAPI version ")
                  <=> (doc.openapi # "" /\ doc.openapi \notin SupportedOpenApi)
            /\ Warned(doc, "Swagger version ")
                  <=> (doc.swagger # "" /\ doc.swagger # "2.0")

\* The number of diagnostics of doc that satisfy Test
Count(doc, Test(_)) ==
    Cardinality({ i \in 1..Len(Returned(doc)) : Test(Returned(doc)[i]) })

AboutInfo(diag) ==
    diag.severity = "error" /\ diag.path = "" /\ Includes(diag.message, "\"info\"")

AboutTitle(diag) == diag.path = "info.title"

AboutVersion(diag) == diag.path = "info.version"

\* C18: for every document that is not falsy, without an info object the
\* validator returns exactly one error about the missing info and none with
\* path info.title or info.version; with an info object it returns an error
\* with path info.title iff the title is missing and one with path
\* info.version iff the version is missing.
C18_InfoDiagnostics ==
    \A c \in 1..Len(cycles) :
        LET doc == cycles[c].doc.json IN
        doc.kind # "null" =>
            IF doc.info.kind # "object" THEN
                /\ Count(doc, AboutInfo) = 1
                /\ Count(doc, AboutTitle) = 0
                /\ Count(doc, AboutVersion) = 0
            ELSE
                /\ Count(doc, AboutInfo) = 0
                /\ Count(doc, AboutTitle) = (IF doc.info.title = "" THEN 1 ELSE 0)
                /\ Count(doc, AboutVersion) = (IF doc.info.version = "" THEN 1 ELSE 0)
                /\ \A i \in 1..Len(Returned(doc)) :
                      (AboutTitle(Returned(doc)[i]) \/ AboutVersion(Returned(doc)[i]))
                          => Returned(doc)[i].severity = "error"

----------------------------------------------------------------------------
(* Properties of the normalization *)

\* The catch of the normalization step has run: the error it sets
NormalizationFailed == StartsWith(error, "Failed to parse API specification: ")

\* The message of the first parse that failed for the content of d
UnderlyingMessage(d) ==
    IF d.format = "yaml" \/ d.yamlPrefix THEN "bad indentation of a mapping entry"
    ELSE "Unexpected token in JSON"

\* C19: for string content of either declared format, the normalization
\* step fails exactly when the content parses neither as JSON nor as YAML;
\* the resolver is called only for content that parses, and a cycle that
\* failed ends with an error that carries the message of the failed parse,
\* exactly one diagnostic, an error, no endpoints and isLoading false.
C19_NormalizationFallback ==
    \A c \in 1..Len(cycles) :
        LET d == cycles[c].doc IN
        d.contentKind = "string" =>
            /\ cycles[c].pc = "resolve" => (d.jsonOk \/ d.yamlOk)
            /\ cycles[c].pc = "done" =>
                  /\ NormalizationFailed <=> (~d.jsonOk /\ ~d.yamlOk)
                  /\ NormalizationFailed =>
                        /\ Includes(error, UnderlyingMessage(d))
                        /\ Len(validationErrors) = 1
                        /\ validationErrors[1].severity = "error"
                        /\ endpoints = <<>>
                        /\ ~isLoading

----------------------------------------------------------------------------
(* Properties of the graph rebuild *)

\* The endpoint node nd is expanded in the graph g, with its response nodes
\* and the edges to them
ExpandedIn(g, nd) ==
    /\ \E j \in 1..Len(g.nodes) : g.nodes[j].id = nd.id /\ g.nodes[j].expanded
    /\ \A i \in 1..Len(nd.responses) :
          LET rid == ResponseNodeId(ReplaceFirst(nd.id, "endpoint-", ""), nd.responses[i])
          IN /\ rid \in IdsOf(g.nodes)
             /\ \E j \in 1..Len(g.edges) :
                   g.edges[j].source = nd.id /\ g.edges[j].target = rid

\* C20: in every state reached by toggles and rebuilds of the graph of one
\* document, a rebuild for another api name, the endpoints being the same,
\* leaves every expanded endpoint expanded, with its response nodes and
\* edges.
C20_RebuildPreservesExpansion ==
    \A name \in ApiNames \ {apiName} :
        \A k \in 1..Len(nodes) :
            (nodes[k].type = "endpoint" /\ nodes[k].expanded)
                => ExpandedIn(RebuildGraph(name), nodes[k])

----------------------------------------------------------------------------
(* Properties of the frame and the placement of a toggle *)

\* What a toggle must leave alone in a node
Frame(n) == <<n.id, n.type, n.x, n.y>>

\* The toggle of nodeId by the handler of the last render
HandlerToggle(nodeId) == toggleNodeExpansion(handlerNodes, Graph, nodeId)

\* The nodes of g that were there before, each with the frame it had
FramesKept(g) ==
    IF Len(g.nodes) >= Len(nodes)
    THEN \A i \in 1..Len(nodes) : Frame(g.nodes[i]) = Frame(nodes[i])
    ELSE \A i \in 1..Len(g.nodes) : \E j \in 1..Len(nodes) : Frame(g.nodes[i]) = Frame(nodes[j])

\* The nodes g adds for the responses of node are stacked below it
ResponsesStacked(g, node) ==
    /\ Len(g.nodes) = Len(nodes) + Len(node.responses)
    /\ \A i \in 1..Len(node.responses) :
          LET r == g.nodes[Len(nodes) + i] IN
          /\ r.type = "response"
          /\ r.label = node.responses[i].statusCode
          /\ r.x = node.x
          /\ r.y = node.y + 120 + (80 * (i - 1))

\* C25: toggleNodeExpansion leaves the id, type and position of every node
\* that existed before the call unchanged; on expansion the i-th response
\* node (counted from 0, in responses order) is placed at the endpoint's x
\* and at the endpoint's y + 120 + 80*i; a toggle on an unknown id or on a
\* node that is not an endpoint changes nothing.
C25_ToggleFrameAndPlacement ==
    \A nodeId \in ToggleIds :
        LET k == FindIndex(handlerNodes, nodeId)
            g == HandlerToggle(nodeId)
        IN IF k = 0 THEN g = Graph
           ELSE IF handlerNodes[k].type # "endpoint" THEN g = Graph
           ELSE /\ FramesKept(g)
                /\ ~handlerNodes[k].expanded => ResponsesStacked(g, handlerNodes[k])

\* An endpoint is expanded and its second response sits on the second row
C25_Witness ==
    \E i, j \in 1..Len(nodes) :
        /\ nodes[i].type = "endpoint" /\ nodes[i].expanded
        /\ Len(nodes[i].responses) >= 2
        /\ nodes[j].type = "response"
        /\ nodes[j].label = nodes[i].responses[2].statusCode
        /\ nodes[j].x = nodes[i].x
        /\ nodes[j].y = nodes[i].y + 200

----------------------------------------------------------------------------
(* Properties of isLoading and of the version label *)

\* A cycle for the selected document has started and has not finished: the
\* cycle of the last selection of a document is the last one of cycles
CurrentCycleRunning ==
    /\ spec # NoSpec
    /\ Len(cycles) > 0
    /\ cycles[Len(cycles)].doc = spec
    /\ cycles[Len(cycles)].pc # "done"

\* C26: isLoading is true in every state in which a parse cycle for the
\* selected document has started and not yet finished, and it is false once
\* no cycle is in flight; the completion of a cycle started for a document
\* selected before never sets isLoading to false while the cycle of the
\* selected document is still running.
C26_LoadingTracksCurrentCycle ==
    /\ CurrentCycleRunning => isLoading
    /\ AllDone => ~isLoading

\* C27: after the parse cycle for the selected document has completed,
\* whether it succeeded or failed in normalization or in resolution, the
\* version label describes that document or is empty or Unknown: it is never
\* the label computed for a document selected before.
C27_VersionLabelOfSelected ==
    (spec # NoSpec /\ AllDone)
        => specVersion \in {VersionLabel(spec.json), "", "Unknown"}

----------------------------------------------------------------------------
(* Properties of the schema graph *)

\* The loads that returned
DoneLoads == { l \in 1..Len(viewerPage.loads) : viewerPage.loads[l].pc = "done" }

\* The loads that returned for a content that YAML.parse and the client accept
BuiltLoads == { l \in DoneLoads : viewerPage.loads[l].spec.content.parses }

LoadedDocument(l) == viewerPage.loads[l].spec.content.document

NodeIds(g) == [i \in 1..Len(g.nodes) |-> g.nodes[i].id]

\* The ids of the endpoints whose path item and operation are objects
WellFormedEndpointIds(document) ==
    LET paths == Entries(Prop(document, "paths"))
        items == { i \in 1..Len(paths) : paths[i].value.kind = "object" }
        OperationsOf(i) ==
            { j \in 1..Len(paths[i].value.entries) :
                /\ paths[i].value.entries[j].key \in ViewerMethods
                /\ paths[i].value.entries[j].value.kind = "object" }
    IN UNION { { generateNodeId("root",
                                paths[i].value.entries[j].key \o "_" \o paths[i].key, "") :
                    j \in OperationsOf(i) } : i \in items }

\* C21: the schema-graph builder never throws, whatever the shape of a
\* schema: a malformed fragment (a null or non-object property schema, a
\* required value that is not an array, a $ref that is not a string, a null
\* path item or response) is skipped, and the nodes of the well-formed
\* siblings are still produced.
C21_BuilderNeverThrows ==
    \A l \in BuiltLoads :
        /\ \A rands \in RandomDraws :
              extractNodesAndEdges(LoadedDocument(l), rands).thrown = ""
        /\ Truthy(Prop(LoadedDocument(l), "paths"))
              => WellFormedEndpointIds(LoadedDocument(l))
                    \subseteq IdsOf(viewerPage.loads[l].parsed.nodes)

\* No key of the document is empty or blank
RECURSIVE NoBlankKeys(_)
NoBlankKeys(v) ==
    \A i \in 1..Len(v.entries) :
        ~IsBlank(v.entries[i].key) /\ NoBlankKeys(v.entries[i].value)

\* Building the content of the load l again, whatever Math.random returns,
\* gives the node ids and the edges the load got
SameGraphAgain(l) ==
    \A rands \in RandomDraws :
        LET again == parseOpenAPISpec(viewerPage.loads[l].spec.content, rands)
        IN /\ NodeIds(again) = NodeIds(viewerPage.loads[l].parsed)
           /\ again.edges = viewerPage.loads[l].parsed.edges

\* Building again gives as many nodes and edges
SameSizeAgain(l) ==
    \A rands \in RandomDraws :
        LET again == parseOpenAPISpec(viewerPage.loads[l].spec.content, rands)
        IN /\ Len(again.nodes) = Len(viewerPage.loads[l].parsed.nodes)
           /\ Len(again.edges) = Len(viewerPage.loads[l].parsed.edges)

\* In the hook, the endpoint id of an operation with an operationId depends
\* on nothing else, that of one without on method and path, and the node and
\* edge ids depend on the endpoint ids only
HookIdsDetermined ==
    \A d \in CleanDocs :
        LET eps == ExtractEndpoints(d).endpoints IN
        /\ \A i \in 1..Len(d) :
              LET operationId == d[i].item.ops["get"].operationId IN
              \E k \in 1..Len(eps) :
                  eps[k].id = IF operationId # "" THEN kebabCase(operationId)
                              ELSE EndpointId(d[i].path, "get", "")
        /\ \A name \in ApiNames :
              /\ [k \in 1..Len(eps) + 1 |-> BuildNodes(eps, name)[k].id]
                    = <<rootNodeId>> \o [k \in 1..Len(eps) |-> "endpoint-" \o eps[k].id]
              /\ [k \in 1..Len(eps) |-> BuildEdges(eps)[k].id]
                    = [k \in 1..Len(eps) |-> "edge-root-" \o eps[k].id]

\* C22 as stated: building twice from the same resolved document, with no
\* expansion, yields identical endpoint ids, node ids and edge sets.
C22_BuildTwiceIdentical ==
    /\ \A l \in DoneLoads : SameGraphAgain(l)
    /\ HookIdsDetermined

\* C22: building twice from the same resolved document, with no expansion,
\* yields identical endpoint ids, node ids and edge sets if no key of the
\* document is empty or blank, and as many nodes and edges in any case; in
\* the hook the endpoint ids are a function of operationId (or of method and
\* path) only and the node and edge ids a function of the endpoint ids only.
C22_BuildTwiceIdenticalForNamedKeys ==
    /\ \A l \in DoneLoads :
          /\ NoBlankKeys(LoadedDocument(l)) => SameGraphAgain(l)
          /\ SameSizeAgain(l)
    /\ HookIdsDetermined

\* A load returned with a graph that holds schema nodes, for a document
\* whose keys are all named
C22_Witness ==
    \E l \in BuiltLoads :
        /\ NoBlankKeys(LoadedDocument(l))
        /\ Len(viewerPage.loads[l].parsed.nodes) >= 5

\* The edges of g that lead to the node id
EdgesInto(g, id) == { j \in 1..Len(g.edges) : g.edges[j].to = id }

EdgesOutOf(g, id) == { j \in 1..Len(g.edges) : g.edges[j].from = id }

\* Every node of g but the root is the target of exactly one edge, which
\* comes from the node its id was generated under, and the root of none
TreeShaped(g) ==
    \A i \in 1..Len(g.nodes) :
        IF g.nodes[i].id = "root" THEN EdgesInto(g, "root") = {}
        ELSE /\ Cardinality(EdgesInto(g, g.nodes[i].id)) = 1
             /\ \A j \in EdgesInto(g, g.nodes[i].id) :
                   /\ \E k \in 1..(i - 1) : g.nodes[k].id = g.edges[j].from
                   /\ StartsWith(g.nodes[i].id, g.edges[j].from \o "-")

\* C23: in every graph instance every node other than the root is the
\* target of exactly one edge, whose source is its structural parent, and
\* the root is the target of none, so that the graph is a tree.
C23_GraphIsTree == \A l \in DoneLoads : TreeShaped(viewerPage.loads[l].parsed)

\* The values of the document that carry $ref and are neither an object
\* with properties nor an array with items
RECURSIVE RefCount(_)
RECURSIVE RefCountFrom(_, _)
RefCount(v) ==
    (IF Truthy(Prop(v, "$ref")) /\ ~IsObjectSchema(v) /\ ~IsArraySchema(v) THEN 1 ELSE 0)
        + RefCountFrom(v, 1)

RefCountFrom(v, i) ==
    IF i > Len(v.entries) THEN 0
    ELSE RefCount(v.entries[i].value) + RefCountFrom(v, i + 1)

\* The reference nodes of g
ReferenceNodes(g) ==
    { i \in 1..Len(g.nodes) : g.nodes[i].type = "schema" /\ StartsWith(g.nodes[i].text, "Ref: ") }

\* C24: the recursion of extractSchemaNodes terminates on every input and
\* never follows a reference: a schema or property that carries $ref (and is
\* not an object with properties or an array with items) produces exactly
\* one terminal node with id <owner>-ref that has one incoming edge, from
\* its owner, and no outgoing edge.
C24_ReferencesAreTerminal ==
    \A l \in BuiltLoads :
        LET g == viewerPage.loads[l].parsed IN
        /\ Cardinality(ReferenceNodes(g)) = RefCount(LoadedDocument(l))
        /\ \A i \in ReferenceNodes(g) :
              /\ Cardinality(EdgesInto(g, g.nodes[i].id)) = 1
              /\ \A j \in EdgesInto(g, g.nodes[i].id) :
                    g.edges[j].from \o "-ref" = g.nodes[i].id
              /\ EdgesOutOf(g, g.nodes[i].id) = {}

----------------------------------------------------------------------------
(* Properties of the viewer page *)

LoadInFlight == \E l \in 1..Len(viewerPage.loads) : viewerPage.loads[l].pc = "parse"

\* C28: once no load is in flight the displayed graph is the one parsed from
\* the current spec, and empty while currentSpec is null: a load that
\* completes late neither overwrites the graph of a later load nor
\* repopulates the graph after deleteSpec removed the current spec; and
\* loading is true for as long as a load started by loadSpec or importSpec
\* is in flight.
C28_GraphOfCurrentSpec ==
    /\ ~LoadInFlight =>
          IF viewerPage.currentSpec = NoDocument
          THEN viewerPage.parsedData = EmptyGraph
          ELSE \E rands \in RandomDraws :
                  viewerPage.parsedData
                      = parseOpenAPISpec(viewerPage.currentSpec.content, rands)
    /\ LoadInFlight => viewerPage.loading

----------------------------------------------------------------------------
(* Properties of the editor page and of the storage hook *)

\* A click on Save with an editor content that is empty or does not parse
SaveRejected ==
    /\ IsBlank(editorPage.editorValue) \/ ~Parses(editorPage.editorValue)
    /\ \E writes \in BOOLEAN : SaveSpec(writes)

\* C29: after every operation that changes the spec list (saveSpec,
\* handleImport, confirmDelete, toggleFavorite) the list persisted under the
\* storage key equals the in-memory list, so that a spec removed by
\* confirmDelete is no longer persisted; and a saveSpec that fails
\* validation leaves the in-memory list, the persisted list and currentSpec
\* unchanged.
C29_PersistedListFollows ==
    [][ /\ editorPage'.specs # editorPage.specs
            => localStorage' = Stringify(editorPage'.specs)
        /\ SaveRejected
            => /\ editorPage'.specs = editorPage.specs
               /\ localStorage' = localStorage
               /\ editorPage'.currentSpec = editorPage.currentSpec ]_vars

\* What the claim says of a call of saveSpecs
SaveSpecsAsClaimed ==
    /\ (\E newSpecs \in SpecLists : SaveSpecs(newSpecs, FALSE))
          => /\ storageHook'.specs = storageHook.specs
             /\ storageHook'.storageError # "null"
             /\ localStorage' = localStorage
    /\ \A newSpecs \in SpecLists :
          SaveSpecs(newSpecs, TRUE)
              => /\ storageHook'.specs = newSpecs
                 /\ localStorage' = Stringify(newSpecs)
                 /\ storageHook'.storageError = "null"

\* The hook after loading an item it cannot use
LoadedNothingWithError ==
    /\ storageHook'.specs = <<>>
    /\ storageHook'.storageError # "null"
    /\ ~storageHook'.isLoading

\* C30 as stated: a saveSpecs whose write throws leaves specs unchanged and
\* sets storageError, a successful one makes specs the list written and
\* clears storageError, and loading stored data that is not valid JSON, or
\* is neither an array nor an object, yields an empty list with storageError
\* set and isLoading false.
C30_StorageHookErrors ==
    [][ /\ SaveSpecsAsClaimed
        /\ (LoadEffect(TRUE) /\ localStorage.kind \in {"empty", "invalid", "scalar"})
              => LoadedNothingWithError ]_vars

\* C30: a saveSpecs whose write throws leaves specs unchanged and sets
\* storageError, a successful one makes specs the list written and clears
\* storageError, and loading stored data that is not empty and is not valid
\* JSON, or is neither an array nor an object, yields an empty list with
\* storageError set and isLoading false; a stored empty string is loaded
\* like no stored data, as an empty list with no storageError.
C30_StorageHookErrorsForNonEmptyData ==
    [][ /\ SaveSpecsAsClaimed
        /\ (LoadEffect(TRUE) /\ localStorage.kind \in {"invalid", "scalar"})
              => LoadedNothingWithError
        /\ (LoadEffect(TRUE) /\ localStorage.kind = "empty")
              => /\ storageHook'.specs = <<>>
                 /\ storageHook'.storageError = "null"
                 /\ ~storageHook'.isLoading ]_vars

\* A list was saved and a later write threw: the list in memory is still
\* the one that is stored, with storageError set
C30_Witness ==
    /\ storageHook.specs # <<>>
    /\ localStorage = Stringify(storageHook.specs)
    /\ StartsWith(storageHook.storageError, "Failed to save to localStorage")

=============================================================================
